---- MODULE Spec2Model ----
(***************************************************************************)
(* Verification model of the itinerary generation pipeline of              *)
(* ai-services-new: cache key and cache store (cache_service.py), route    *)
(* optimizer (route_optimizer.py), retry controller (llm_service.py) and   *)
(* the request pipeline (itinerary_service.py, api/routes/itinerary.py).   *)
(***************************************************************************)
EXTENDS Integers, Sequences, FiniteSets, TLC

(***************************************************************************)
(* Bounds of the model.                                                    *)
(***************************************************************************)
MaxDates == 2        \* longest travel_dates list of a request
DateBase == 8        \* calendar days DateBase+1 .. DateBase+NumDates
NumDates == 2
MaxInterests == 2    \* longest interests list
MaxRouteDays == 3    \* longest day list handed to optimize_route
MaxLat == 1          \* coordinates are whole degrees 0..MaxLat x 0..MaxLng
MaxLng == 1

(***************************************************************************)
(* Optional dict fields: a missing key is <<>>, a present value v is <<v>>.*)
(***************************************************************************)
Absent == <<>>
Some(v) == <<v>>

Range(s) == {s[i] : i \in 1..Len(s)}
SeqsUpTo(S, n) == UNION {[1..k -> S] : k \in 0..n}
Count(s, x) == Cardinality({i \in 1..Len(s) : s[i] = x})
IsPermutation(s, t) ==
  /\ Len(s) = Len(t)
  /\ \A x \in Range(s) \cup Range(t) : Count(s, x) = Count(t, x)

(***************************************************************************)
(* Dates.  A date is a day of one month; str(date) is its ISO text, of     *)
(* which the two day digits are kept (the year-month prefix is the same    *)
(* for every date of the model).                                           *)
(***************************************************************************)
Dates == (DateBase + 1)..(DateBase + NumDates)
DateStr(d) == <<d \div 10, d % 10>>
DateOfStr(s) == 10 * s[1] + s[2]
\* str.__lt__ on two ISO date texts: lexicographic on the characters
StrLess(a, b) == \/ a[1] < b[1]
                 \/ a[1] = b[1] /\ a[2] < b[2]

\* sorted(list of str): each element is inserted after the elements that are
\* not greater (the sort is stable)
RECURSIVE InsertStr(_, _)
InsertStr(s, x) ==
  IF s = <<>> THEN <<x>>
  ELSE IF StrLess(x, Head(s)) THEN <<x>> \o s
       ELSE <<Head(s)>> \o InsertStr(Tail(s), x)
RECURSIVE SortedStrs(_)
SortedStrs(strs) ==
  IF strs = <<>> THEN <<>>
  ELSE InsertStr(SortedStrs(SubSeq(strs, 1, Len(strs) - 1)), strs[Len(strs)])

\* sorted(list of date)
RECURSIVE InsertDate(_, _)
InsertDate(s, x) ==
  IF s = <<>> THEN <<x>>
  ELSE IF x < Head(s) THEN <<x>> \o s
       ELSE <<Head(s)>> \o InsertDate(Tail(s), x)
RECURSIVE SortedDates(_)
SortedDates(ds) ==
  IF ds = <<>> THEN <<>>
  ELSE InsertDate(SortedDates(SubSeq(ds, 1, Len(ds) - 1)), ds[Len(ds)])

(***************************************************************************)
(* Request arguments of the cache service.                                 *)
(***************************************************************************)
\* Destination texts, as the list of their tokens.
LatLng(lat, lng) == <<"Lat:", lat, ",", "Lng:", lng>>
Destinations == {LatLng("1", "0"), LatLng("2", "1")}
Tags == {"Food", "History"}
Radii == {50, 100}
DateLists == SeqsUpTo(Dates, MaxDates)
InterestLists == SeqsUpTo(Tags, MaxInterests)
\* Preferences.dict(): the one-key dict {"interests": [...]}
PreferenceDicts == [interests : InterestLists]
CacheArgs == [destination : Destinations,
              travel_dates : {[i \in 1..Len(ds) |-> DateStr(ds[i])] : ds \in DateLists},
              preferences : PreferenceDicts,
              radius : Radii]

\* dict(sorted(preferences.items())): items ordered by key, values untouched
SortedItems(preferences) == [interests |-> preferences.interests]

\* _generate_hash without the radius
_generate_hash_without_radius(destination, travel_dates, preferences, radius) ==
  [destination |-> destination,
   travel_dates |-> SortedStrs(travel_dates),
   preferences |-> SortedItems(preferences),
   radius |-> 0]

\* _generate_hash without sorted(travel_dates)
_generate_hash_unsorted_dates(destination, travel_dates, preferences, radius) ==
  [destination |-> destination,
   travel_dates |-> travel_dates,
   preferences |-> SortedItems(preferences),
   radius |-> radius]

\* CacheService._generate_hash: the digest of the canonical JSON text.  The
\* digest is modelled collision-free: it is the canonical data itself.
_generate_hash(destination, travel_dates, preferences, radius) ==
  [destination |-> destination,
   travel_dates |-> SortedStrs(travel_dates),
   preferences |-> SortedItems(preferences),
   radius |-> radius]

HashOf(a) == _generate_hash(a.destination, a.travel_dates, a.preferences, a.radius)

(***************************************************************************)
(* Geography: calculate_distance_km on whole-degree coordinates.  The      *)
(* tables hold, for each pair of points (point (lat, lng) has index        *)
(* 3*lat + lng + 1), the rank of the float the function returns among all  *)
(* values of the table (DistRankTable, the order min() sees) and the       *)
(* value rounded to one decimal, in tenths of a km (DistTenthsTable).      *)
(***************************************************************************)
DistRankTable ==
  << << 0,  6, 16,  6, 11, 23, 16, 23, 26, 27, 29, 31, 32, 33, 34>>,
     << 6,  0,  6, 11,  6, 11, 23, 16, 23, 29, 27, 29, 33, 32, 33>>,
     <<16,  6,  0, 23, 11,  6, 26, 23, 16, 31, 29, 27, 34, 33, 32>>,
     << 6, 11, 23,  0,  4, 15,  6, 10, 20, 17, 22, 25, 27, 28, 30>>,
     <<11,  6, 11,  4,  0,  4, 10,  6, 10, 22, 17, 22, 28, 27, 28>>,
     <<23, 11,  6, 15,  4,  0, 20, 10,  6, 25, 22, 17, 30, 28, 27>>,
     <<16, 23, 26,  6, 10, 20,  0,  3, 14,  7,  9, 19, 16, 21, 24>>,
     <<23, 16, 23, 10,  6, 10,  3,  0,  3,  9,  7,  9, 21, 16, 21>>,
     <<26, 23, 16, 20, 10,  6, 14,  3,  0, 19,  9,  7, 24, 21, 16>>,
     <<27, 29, 31, 17, 22, 25,  7,  9, 19,  0,  2, 13,  5,  8, 18>>,
     <<29, 27, 29, 22, 17, 22,  9,  7,  9,  2,  0,  2,  8,  5,  8>>,
     <<31, 29, 27, 25, 22, 17, 19,  9,  7, 13,  2,  0, 18,  8,  5>>,
     <<32, 33, 34, 27, 28, 30, 16, 21, 24,  5,  8, 18,  0,  1, 12>>,
     <<33, 32, 33, 28, 27, 28, 21, 16, 21,  8,  5,  8,  1,  0,  1>>,
     <<34, 33, 32, 30, 28, 27, 24, 21, 16, 18,  8,  5, 12,  1,  0>> >>

DistTenthsTable ==
  << <<   0, 1112, 2224, 1112, 1572, 2486, 2224, 2486, 3145, 3336, 3516, 4009, 4448, 4584, 4972>>,
     <<1112,    0, 1112, 1572, 1112, 1572, 2486, 2224, 2486, 3516, 3336, 3516, 4584, 4448, 4584>>,
     <<2224, 1112,    0, 2486, 1572, 1112, 3145, 2486, 2224, 4009, 3516, 3336, 4972, 4584, 4448>>,
     <<1112, 1572, 2486,    0, 1112, 2224, 1112, 1572, 2486, 2224, 2486, 3144, 3336, 3516, 4008>>,
     <<1572, 1112, 1572, 1112,    0, 1112, 1572, 1112, 1572, 2486, 2224, 2486, 3516, 3336, 3516>>,
     <<2486, 1572, 1112, 2224, 1112,    0, 2486, 1572, 1112, 3144, 2486, 2224, 4008, 3516, 3336>>,
     <<2224, 2486, 3145, 1112, 1572, 2486,    0, 1111, 2223, 1112, 1572, 2484, 2224, 2486, 3143>>,
     <<2486, 2224, 2486, 1572, 1112, 1572, 1111,    0, 1111, 1572, 1112, 1572, 2486, 2224, 2486>>,
     <<3145, 2486, 2224, 2486, 1572, 1112, 2223, 1111,    0, 2484, 1572, 1112, 3143, 2486, 2224>>,
     <<3336, 3516, 4009, 2224, 2486, 3144, 1112, 1572, 2484,    0, 1110, 2221, 1112, 1571, 2483>>,
     <<3516, 3336, 3516, 2486, 2224, 2486, 1572, 1112, 1572, 1110,    0, 1110, 1571, 1112, 1571>>,
     <<4009, 3516, 3336, 3144, 2486, 2224, 2484, 1572, 1112, 2221, 1110,    0, 2483, 1571, 1112>>,
     <<4448, 4584, 4972, 3336, 3516, 4008, 2224, 2486, 3143, 1112, 1571, 2483,    0, 1109, 2218>>,
     <<4584, 4448, 4584, 3516, 3336, 3516, 2486, 2224, 2486, 1571, 1112, 1571, 1109,    0, 1109>>,
     <<4972, 4584, 4448, 4008, 3516, 3336, 3143, 2486, 2224, 2483, 1571, 1112, 2218, 1109,    0>> >>

PointIdx(c) == 3 * c[1] + c[2] + 1
calculate_distance_km(coord1, coord2) == DistRankTable[PointIdx(coord1)][PointIdx(coord2)]
\* round(calculate_distance_km(coord1, coord2), 1), in tenths of a km
RoundedDistance(coord1, coord2) == DistTenthsTable[PointIdx(coord1)][PointIdx(coord2)]

Coords == (0..MaxLat) \X (0..MaxLng)
Places == {"Museum"}

(***************************************************************************)
(* ItineraryService._parse_coordinates: re.search of                       *)
(* Lat:\s*([0-9\.-]+),\s*Lng:\s*([0-9\.-]+) and float() of the two groups. *)
(***************************************************************************)
\* tokens made of the characters 0-9 . - only
NumberLike == {"0", "1", "2", "1.2.3"}
\* float(token): <<value>>, or <<>> when float raises ValueError
Float(tok) == CASE tok = "0" -> <<0>> [] tok = "1" -> <<1>> [] tok = "2" -> <<2>>
                [] OTHER -> <<>>
MatchAt(destination, i) ==
  /\ i + 4 <= Len(destination)
  /\ destination[i] = "Lat:" /\ destination[i + 1] \in NumberLike
  /\ destination[i + 2] = "," /\ destination[i + 3] = "Lng:"
  /\ destination[i + 4] \in NumberLike
\* the result is <<lat, lng>>, or <<>> for (None, None)
_parse_coordinates(destination) ==
  IF \E i \in 1..Len(destination) : MatchAt(destination, i)
  THEN LET i == CHOOSE k \in 1..Len(destination) :
                  MatchAt(destination, k) /\ \A j \in 1..(k - 1) : ~MatchAt(destination, j)
           lat == Float(destination[i + 1])
           lng == Float(destination[i + 4])
       IN IF lat = <<>> \/ lng = <<>> THEN <<>> ELSE <<lat[1], lng[1]>>
  ELSE <<>>
Origins == {_parse_coordinates(d) : d \in Destinations}

VARIABLES
  \* cache key computation
  hArgsA, hArgsB, hKeyA, hKeyB, hPc,
  \* route optimizer
  rStart, rDays, rOut, rPc,
  \* cache services: configuration of each service (both CacheService objects
  \* of a service are built by the same constructor in the same environment),
  \* the in-process maps, the MongoDB collection and the clock
  cache_enabled, collection, mongoUp, _memory_cache, documents, now,
  \* the last two calls made on a CacheService, and for each key the payload
  \* of the last store that returned True
  cPrev, cLast, cStored,
  \* requests to generate_itinerary: position of each call, its request, the
  \* service object that serves it, its local variables, the calls it has
  \* made to collaborators, what the route answers
  pc, request, service, locals, calls, response,
  \* whether the generation backend answers at all, whether it is to answer
  \* the second call as it answered the first, and the answers the
  \* collaborators have given
  ollama, replay, script,
  \* one call of a function that keeps no state: which function, its
  \* arguments, what it returned
  fOp, fArgs, fResult

hashVars == <<hArgsA, hArgsB, hKeyA, hKeyB, hPc>>
routeVars == <<rStart, rDays, rOut, rPc>>
configVars == <<cache_enabled, collection, mongoUp>>
storeVars == <<_memory_cache, documents, now>>
cacheCallVars == <<cPrev, cLast, cStored>>
pipeVars == <<pc, request, service, locals, calls, response, ollama, replay, script>>
callVars == <<fOp, fArgs, fResult>>
vars == <<hashVars, routeVars, configVars, storeVars, cacheCallVars, pipeVars, callVars>>
\* what each specification leaves alone
hashFrame == <<routeVars, configVars, storeVars, cacheCallVars, pipeVars, callVars>>
routeFrame == <<hashVars, configVars, storeVars, cacheCallVars, pipeVars, callVars>>
cacheFrame == <<hashVars, routeVars, pipeVars, callVars>>
pipeFrame == <<hashVars, routeVars, cacheCallVars, callVars>>
callFrame == <<hashVars, routeVars, configVars, storeVars, cacheCallVars, pipeVars>>

HashIdle == /\ hArgsA = <<>> /\ hArgsB = <<>> /\ hKeyA = <<>> /\ hKeyB = <<>> /\ hPc = "off"
RouteIdle == /\ rStart = <<0, 0>> /\ rDays = <<>> /\ rOut = <<>> /\ rPc = "off"
CallIdle == /\ fOp = "off" /\ fArgs = <<>> /\ fResult = <<>>

(***************************************************************************)
(* Cache service (cache_service.py).                                       *)
(***************************************************************************)
Services == {"s1", "s2"}
CacheNames == {"itinerary", "llm"}

\* Python dicts as functions
EmptyDict == <<>>
DictSetIfAbsent(d, k, v) == IF k \in DOMAIN d THEN d ELSE [x \in DOMAIN d \cup {k} |-> v]
DictSet(d, k, v) == [x \in DOMAIN d \cup {k} |-> IF x = k THEN v ELSE d[x]]
DictDel(d, k) == [x \in DOMAIN d \ {k} |-> d[x]]

\* CacheService.__init__ and _connect leave one of four configurations:
\* caching off; no collection (pymongo missing or MongoClient raised), so the
\* in-process map is used; a collection whose server answers; a collection
\* whose server does not answer (create_index raised after self.collection
\* was assigned, and _connect only resets self.client).
\* What CacheService._connect finds: no client library or no client
\* ("absent": the import or MongoClient raises), a server that does not
\* answer ("unreachable": create_index raises), or a server that answers.
Backends == {"absent", "unreachable", "reachable"}
\* CacheService._connect: whether self.collection is set afterwards. It is
\* assigned before create_index runs and the except branch clears only
\* self.client.
_connect(backend) == backend # "absent"
CacheConfigs ==
  {[cache_enabled |-> FALSE, collection |-> FALSE, mongoUp |-> TRUE]}
    \cup {[cache_enabled |-> TRUE, collection |-> _connect(b), mongoUp |-> b # "unreachable"] :
            b \in Backends}

\* "expires_at": None, or later than datetime.utcnow()
UnexpiredAlways(entry, t) == TRUE
Unexpired(entry, t) ==
  \/ entry.expires_at = Absent
  \/ entry.expires_at # Absent /\ entry.expires_at[1] > t
Matching(docs, request_hash, t) ==
  {d \in docs : d.request_hash = request_hash /\ Unexpired(d, t)}

\* CacheService.get_cached_response on the service with fields self: the
\* returned payload (Absent for None), the in-process map afterwards, and
\* whether the payload is the dict held by the in-process map ("memory") or
\* a copy decoded from the collection ("mongo")
get_cached_response(self, up, docs, t, args) ==
  LET request_hash == HashOf(args)
      miss == [response |-> Absent, memory |-> self.memory, source |-> "none"]
  IN IF ~self.cache_enabled THEN miss
     ELSE IF self.collection /\ ~up THEN miss    \* find_one raises: except branch
     ELSE IF self.collection /\ Matching(docs, request_hash, t) # {}
          THEN [response |-> Some((CHOOSE d \in Matching(docs, request_hash, t) : TRUE).response_data),
                memory |-> self.memory, source |-> "mongo"]
     ELSE IF request_hash \in DOMAIN self.memory
          THEN IF Unexpired(self.memory[request_hash], t)
               THEN [response |-> Some(self.memory[request_hash].response_data),
                     memory |-> self.memory, source |-> "memory"]
               ELSE [response |-> Absent, memory |-> DictDel(self.memory, request_hash),
                     source |-> "none"]
     ELSE miss

\* an insert that keeps a document already stored under the key
InsertIfAbsent(docs, request_hash, entry) ==
  IF \E d \in docs : d.request_hash = request_hash THEN docs ELSE docs \cup {entry}

\* collection.replace_one({"request_hash": request_hash}, entry, upsert=True)
ReplaceOneUpsert(docs, request_hash, entry) ==
  IF \E d \in docs : d.request_hash = request_hash
  THEN (docs \ {CHOOSE d \in docs : d.request_hash = request_hash}) \cup {entry}
  ELSE docs \cup {entry}

\* a store that keeps the entry in the in-process map when the collection
\* raises, and reports success
cache_response_memory_on_error(self, up, docs, t, args, response_data) ==
  LET request_hash == HashOf(args)
      entry == [request_hash |-> request_hash,
                destination |-> args.destination,
                travel_dates |-> args.travel_dates,
                preferences |-> args.preferences,
                radius |-> args.radius,
                response_data |-> response_data,
                created_at |-> t,
                expires_at |-> Absent]
  IN IF ~self.cache_enabled
     THEN [result |-> FALSE, memory |-> self.memory, documents |-> docs]
     ELSE IF self.collection /\ up
          THEN [result |-> TRUE, memory |-> self.memory,
                documents |-> ReplaceOneUpsert(docs, request_hash, entry)]
     ELSE [result |-> TRUE, memory |-> DictSet(self.memory, request_hash, entry),
           documents |-> docs]

\* CacheService.cache_response: the returned bool, the in-process map and the
\* collection afterwards
cache_response(self, up, docs, t, args, response_data) ==
  LET request_hash == HashOf(args)
      entry == [request_hash |-> request_hash,
                destination |-> args.destination,
                travel_dates |-> args.travel_dates,
                preferences |-> args.preferences,
                radius |-> args.radius,
                response_data |-> response_data,
                created_at |-> t,
                expires_at |-> Absent]
  IN IF ~self.cache_enabled
     THEN [result |-> FALSE, memory |-> self.memory, documents |-> docs]
     ELSE IF self.collection
          THEN IF up
               THEN [result |-> TRUE, memory |-> self.memory,
                     documents |-> ReplaceOneUpsert(docs, request_hash, entry)]
               ELSE [result |-> FALSE, memory |-> self.memory, documents |-> docs]
     ELSE [result |-> TRUE, memory |-> DictSet(self.memory, request_hash, entry),
           documents |-> docs]

\* a sweep that removes every entry
cleanup_all_cache(self, up, docs, t) ==
  [memory |-> EmptyDict, documents |-> {}]
\* CacheService.cleanup_expired_cache
cleanup_expired_cache(self, up, docs, t) ==
  LET expired(e) == e.expires_at # Absent /\ e.expires_at[1] < t
      kept == {k \in DOMAIN self.memory : ~expired(self.memory[k])}
  IN IF ~self.cache_enabled \/ (self.collection /\ ~up)
     THEN [memory |-> self.memory, documents |-> docs]
     ELSE [memory |-> [k \in kept |-> self.memory[k]],
           documents |-> IF self.collection THEN {d \in docs : ~expired(d)} ELSE docs]

\* the CacheService object `name` of service s
Self(s, name) == [cache_enabled |-> cache_enabled[s], collection |-> collection[s],
                  memory |-> _memory_cache[<<s, name>>]]

ConfigInit(configs) ==
  \E cfg \in configs :
    /\ cache_enabled = [s \in Services |-> cfg.cache_enabled]
    /\ collection = [s \in Services |-> cfg.collection]
    /\ mongoUp = cfg.mongoUp
StoreInit ==
  /\ _memory_cache = [c \in Services \X CacheNames |-> EmptyDict]
  /\ documents = {}
  /\ now = 0
CacheCallsIdle == cPrev = <<>> /\ cLast = <<>> /\ cStored = <<>>
CacheIdle ==
  /\ ConfigInit({[cache_enabled |-> FALSE, collection |-> FALSE, mongoUp |-> TRUE]})
  /\ StoreInit
  /\ CacheCallsIdle


(***************************************************************************)
(* Route optimizer (route_optimizer.py).                                   *)
(***************************************************************************)
DayCoords(day) == <<day.lat, day.lng>>

\* a choice that takes the days in input order
ClosestIndexInputOrder(remaining, current_location) == 1

\* min(remaining, key=distance from current_location): the first of the
\* elements of least distance
ClosestIndex(remaining, current_location) ==
  CHOOSE i \in 1..Len(remaining) :
    /\ \A j \in 1..Len(remaining) :
         calculate_distance_km(current_location, DayCoords(remaining[i]))
           <= calculate_distance_km(current_location, DayCoords(remaining[j]))
    /\ \A j \in 1..(i - 1) :
         calculate_distance_km(current_location, DayCoords(remaining[j]))
           > calculate_distance_km(current_location, DayCoords(remaining[i]))

\* a removal that filters on the coordinates of the chosen day
ListRemoveByCoords(remaining, closest_day) ==
  SelectSeq(remaining, LAMBDA d : DayCoords(d) # DayCoords(closest_day))

\* list.remove(x): drops the first element equal to x
ListRemove(remaining, closest_day) ==
  LET i == CHOOSE k \in 1..Len(remaining) :
             /\ remaining[k] = closest_day
             /\ \A j \in 1..(k - 1) : remaining[j] # closest_day
  IN SubSeq(remaining, 1, i - 1) \o SubSeq(remaining, i + 1, Len(remaining))

\* the travel distance of every placed day is the rounded distance
TravelDistanceAlways(optimized_route, current_location, closest_day) ==
  Some(RoundedDistance(current_location, DayCoords(closest_day)))

\* round(travel_distance, 1) if optimized_route else 0
TravelDistance(optimized_route, current_location, closest_day) ==
  IF optimized_route # <<>>
  THEN Some(RoundedDistance(current_location, DayCoords(closest_day)))
  ELSE Some(0)

\* the while loop of optimize_route; the chosen dict is updated in place, so
\* the element of remaining changes with it before it is removed
RECURSIVE NearestNeighbourLoop(_, _, _)
NearestNeighbourLoop(remaining, current_location, optimized_route) ==
  IF remaining = <<>> THEN optimized_route
  ELSE LET i == ClosestIndex(remaining, current_location)
           closest_day == [remaining[i] EXCEPT !.travel_distance_km =
                             TravelDistance(optimized_route, current_location, remaining[i])]
           updated == [remaining EXCEPT ![i] = closest_day]
       IN NearestNeighbourLoop(ListRemove(updated, closest_day),
                               DayCoords(closest_day),
                               Append(optimized_route, closest_day))

\* an annotation that keeps the day numbers of the input
AnnotateRouteKeepingNumbers(optimized_route) ==
  [i \in 1..Len(optimized_route) |->
     [optimized_route[i] EXCEPT
        !.route = Some([k \in 1..i |-> DayCoords(optimized_route[k])])]]

\* the for loop of optimize_route: day numbers and cumulative route trail
AnnotateRoute(optimized_route) ==
  [i \in 1..Len(optimized_route) |->
     [optimized_route[i] EXCEPT
        !.day = Some(i),
        !.route = Some([k \in 1..i |-> DayCoords(optimized_route[k])])]]

\* an optimizer that orders and annotates every list
optimize_route_every_list(start_coords, days) ==
  AnnotateRoute(NearestNeighbourLoop(days, start_coords, <<>>))

optimize_route(start_coords, days) ==
  IF Len(days) <= 1 THEN days
  ELSE AnnotateRoute(NearestNeighbourLoop(days, start_coords, <<>>))

\* day lists as the enricher hands them on: numbered by the generator, with
\* coordinates, without travel distance or route trail
RouteDay(place, c, n) ==
  [place |-> place, lat |-> c[1], lng |-> c[2], day |-> Some(n),
   travel_distance_km |-> Absent, route |-> Absent]
RouteDayLists ==
  UNION {{[i \in 1..n |-> RouteDay(ps[i], cs[i], i)] :
            ps \in [1..n -> Places], cs \in [1..n -> Coords]} : n \in 0..MaxRouteDays}

\* three stops on the meridian of the origin (1, 0), all north of it, in
\* every input order
LineStops == <<<<2, 0>>, <<3, 0>>, <<4, 0>>>>
LineDayLists ==
  {[i \in 1..Len(LineStops) |-> RouteDay("Museum", LineStops[p[i]], i)] :
     p \in {q \in [1..Len(LineStops) -> 1..Len(LineStops)] :
              \A i, j \in 1..Len(LineStops) : q[i] = q[j] => i = j}}

\* what identifies a stop: its place and its coordinates
Stops(days) == [i \in 1..Len(days) |-> <<days[i].place, days[i].lat, days[i].lng>>]

(***************************************************************************)
(* The request pipeline (itinerary_service.py, llm_service.py,             *)
(* location_service.py, weather_service.py, api/routes/itinerary.py).      *)
(***************************************************************************)
Calls == {1, 2}
max_retries == 3
MaxPlanLen == 3      \* longest day list the generator writes

GoodRequest == [destination |-> LatLng("1", "0"),
                travel_dates |-> <<DateBase + 2, DateBase + 1>>,
                preferences |-> [interests |-> <<"Food", "History">>],
                radius |-> 50]
Requests == {GoodRequest,
             [GoodRequest EXCEPT !.destination = <<>>],
             [GoodRequest EXCEPT !.destination = <<"Berlin">>],
             [GoodRequest EXCEPT !.travel_dates = <<>>]}

DateStrings(ds) == [k \in 1..Len(ds) |-> DateStr(ds[k])]
\* the arguments ItineraryService hands to its cache service (_check_cache,
\* _cache_response): the sorted dates as text, preferences.dict()
ItineraryArgs(r) == [destination |-> r.destination,
                     travel_dates |-> DateStrings(SortedDates(r.travel_dates)),
                     preferences |-> r.preferences,
                     radius |-> r.radius]
\* the arguments LLMService.generate_itinerary gets from generate_plan: the
\* dates as text in request order, preferences.__dict__
LLMArgs(r) == [destination |-> r.destination,
               travel_dates |-> DateStrings(r.travel_dates),
               preferences |-> r.preferences,
               radius |-> r.radius]

\* ItineraryService._validate_request: the message of the ValueError it
\* raises, or Absent
_validate_request(r) ==
  IF r.destination = <<>> THEN Some("Destination must be provided.")
  ELSE IF r.travel_dates = <<>> THEN Some("At least one travel date must be provided.")
  ELSE Absent

\* What the nearby-cities provider and the reverse geocoder answer for the
\* destination: nothing, or cities and the locality.
LocationAnswers ==
  {[nearby_cities |-> <<>>, location_details |-> Absent],
   [nearby_cities |-> <<"Potsdam", "Berlin">>,
    location_details |-> Some([city |-> "Berlin", region |-> "Brandenburg"])]}
\* ItineraryService._get_location_context
_get_location_context(answer) ==
  IF answer.location_details # Absent
  THEN LET additional_cities == <<answer.location_details[1].city,
                                  answer.location_details[1].region>>
       IN answer.nearby_cities \o SelectSeq(additional_cities, LAMBDA city : city # "")
  ELSE answer.nearby_cities

\* What one call of the generation backend leads to: _call_ollama raises
\* ("error"); text from which _parse_llm_response_with_validation gets
\* nothing ("invalid"); text that parses, possibly after repair, to a
\* structurally valid itinerary whose plan has `days` entries ("plan").
LLMAnswers == {[kind |-> "error", days |-> 0], [kind |-> "invalid", days |-> 0]}
                \cup {[kind |-> "plan", days |-> k] : k \in 0..MaxPlanLen}
Towns == <<"Potsdam", "Leipzig", "Dresden", "Berlin">>
TownOf(j) == Towns[((j - 1) % Len(Towns)) + 1]
\* the day entries the generator writes: numbered, dated with the dates of
\* the prompt in the order of the prompt, one town each; obj is the identity
\* of the dict object
GeneratedPlan(k, travel_dates) ==
  [j \in 1..k |->
     [obj |-> j, day |-> Some(j),
      date |-> travel_dates[IF j <= Len(travel_dates) THEN j ELSE Len(travel_dates)],
      town |-> TownOf(j), place |-> "Museum",
      lat |-> 0, lng |-> 0, distance_from_start |-> 0,
      travel_distance_km |-> Absent, route |-> Absent]]
\* LLMService._create_fallback_itinerary
_create_fallback_itinerary(travel_dates) ==
  [plan |-> [j \in 1..Len(travel_dates) |->
               [obj |-> j, day |-> Some(j), date |-> travel_dates[j],
                town |-> "Destination", place |-> "City Center",
                lat |-> 0, lng |-> 0, distance_from_start |-> 0,
                travel_distance_km |-> Absent, route |-> Absent]]]

\* LLMService._modify_prompt_for_retry: the prompt is the list of the retry
\* instructions appended to the initial prompt
_modify_prompt_for_retry(prompt, attempt_number) ==
  Append(prompt, IF attempt_number < 3 THEN attempt_number ELSE 2)

\* LLMService._enhance_itinerary (coordinates of 0 are falsy, so the distance
\* of a day is only recomputed for other coordinates).  The weather is what
\* LLMService._get_weather_forecast returns: it asks the weather service with
\* the dates as text, no forecast date equals a text, so it always gets None
\* and returns its default.
_enhance_itinerary(itinerary, origin, nearby_cities, travel_dates, t, enabled) ==
  [plan |-> [j \in 1..Len(itinerary.plan) |->
               IF itinerary.plan[j].lat # 0 /\ itinerary.plan[j].lng # 0
               THEN [itinerary.plan[j] EXCEPT !.distance_from_start =
                       RoundedDistance(origin, DayCoords(itinerary.plan[j]))]
               ELSE itinerary.plan[j]],
   weather |-> [forecast |-> <<>>, missing_dates |-> travel_dates],
   nearby_cities |-> nearby_cities,
   user_coordinates |-> origin,
   generated_at |-> t,
   cache_info |-> [generated_fresh |-> TRUE, cache_enabled |-> enabled]]

\* What the geocoding provider answers to an address query (the list of the
\* names of the query, which the request joins with ", "): the location of
\* its first result, or nothing.  It knows four museums, two towns and one
\* landmark by their name alone, and no "Cafe", "Atlantis" or "Destination".
GeocodeProvider(query) ==
  CASE query = <<"Museum", "Potsdam">> -> <<<<2, 1>>>>
    [] query = <<"Museum", "Leipzig">> -> <<<<0, 0>>>>
    [] query = <<"Museum", "Dresden">> -> <<<<2, 0>>>>
    [] query = <<"Museum", "Berlin">> -> <<<<0, 1>>>>
    [] query = <<"Potsdam">> -> <<<<1, 1>>>>
    [] query = <<"Leipzig">> -> <<<<1, 0>>>>
    [] query = <<"Tower">> -> <<<<0, 1>>>>
    [] OTHER -> <<>>
\* GoogleMapsClient.geocode(town, place) with an API key: the query is
\* f"{place}, {town}".strip(", "), and an empty query is not sent
Geocode(town, place) ==
  LET query == SelectSeq(<<place, town>>, LAMBDA name : name # "")
  IN IF query = <<>> THEN <<>> ELSE GeocodeProvider(query)
\* LocationService._geocode_single: GoogleMapsClient has no method
\* geocode_single_location, the AttributeError is caught, None is returned
_geocode_single(location_name) == <<>>
\* LocationService._get_first_nearby_city: "return None"
_get_first_nearby_city == <<>>
\* LocationService._find_coordinates: the four strategies, then (0, 0)
_find_coordinates(day) ==
  IF day.town # "" /\ day.place # "" /\ Geocode(day.town, day.place) # <<>>
  THEN Geocode(day.town, day.place)[1]
  ELSE IF day.place # "" /\ _geocode_single(day.place) # <<>>
  THEN _geocode_single(day.place)[1]
  ELSE IF day.town # "" /\ _geocode_single(day.town) # <<>>
  THEN _geocode_single(day.town)[1]
  ELSE IF _get_first_nearby_city # <<>>
  THEN _get_first_nearby_city[1]
  ELSE <<0, 0>>
\* an enricher that puts a day found outside the radius at the origin
enrich_and_validate_plan_within_radius(start_coords, days, radius_km) ==
  [j \in 1..Len(days) |->
     LET found == _find_coordinates(days[j])
         coords == IF RoundedDistance(start_coords, found) > 10 * radius_km THEN start_coords ELSE found
     IN [days[j] EXCEPT !.lat = coords[1], !.lng = coords[2],
                        !.distance_from_start = RoundedDistance(start_coords, coords)]]
\* LocationService.enrich_and_validate_plan
enrich_and_validate_plan(start_coords, days, radius_km) ==
  [j \in 1..Len(days) |->
     LET coords == _find_coordinates(days[j])
     IN [days[j] EXCEPT !.lat = coords[1], !.lng = coords[2],
                        !.distance_from_start = RoundedDistance(start_coords, coords)]]

\* ItineraryService._enrich_and_optimize_plan
_enrich_and_optimize_plan(origin, raw_plan, radius, sorted_dates) ==
  LET enriched == enrich_and_validate_plan(origin, raw_plan, radius)
      ordered == IF Len(enriched) > 1 THEN optimize_route(origin, enriched) ELSE enriched
  IN [j \in 1..Len(ordered) |->
        IF j <= Len(sorted_dates)
        THEN [ordered[j] EXCEPT !.date = DateStr(sorted_dates[j])]
        ELSE ordered[j]]

\* What the weather provider forecasts: the dates it has a forecast for.
ForecastItem(d) == [date |-> DateStr(d)]
ForecastAnswers == {<<>>, <<ForecastItem(DateBase + 1)>>}
\* WeatherService.get_forecast_for_dates and ItineraryService._get_weather_data
\* get_forecast_for_dates: the provider's items for requested dates, and the
\* requested dates the provider has no item for; None without such an item
get_forecast_for_dates(forecast, travel_dates) ==
  LET available_dates == {DateOfStr(forecast[k].date) : k \in 1..Len(forecast)}
      filtered_forecasts == SelectSeq(forecast, LAMBDA item : DateOfStr(item.date) \in Range(travel_dates))
      missing_dates == SelectSeq(travel_dates, LAMBDA d : d \notin available_dates)
  IN IF filtered_forecasts # <<>>
     THEN Some([forecast |-> filtered_forecasts, missing_dates |-> DateStrings(missing_dates)])
     ELSE Absent
\* ItineraryService._get_weather_data
_get_weather_data(forecast, sorted_dates) ==
  LET weather_data == get_forecast_for_dates(forecast, sorted_dates)
  IN IF weather_data # Absent THEN weather_data[1]
     ELSE [forecast |-> <<>>, missing_dates |-> DateStrings(sorted_dates)]

\* ItineraryService._build_response
_build_response(enriched_plan, nearby_cities, origin, radius, date_strings, num_days, weather_data, t, enabled) ==
  [plan |-> enriched_plan,
   nearby_cities |-> nearby_cities,
   user_coordinates |-> origin,
   search_radius |-> radius,
   travel_dates |-> date_strings,
   total_days |-> num_days,
   generated_at |-> t,
   weather |-> weather_data,
   cache_info |-> [from_cache |-> FALSE, cache_enabled |-> enabled]]

\* LLMService._parse_coordinates: the text without "Lat:" and "Lng:", split
\* at the commas, float() of the first two parts; (0.0, 0.0) when that fails
LLMParseCoordinates(destination) ==
  LET parts == SelectSeq(destination, LAMBDA tok : tok \notin {"Lat:", "Lng:", ","})
  IN IF Len(parts) >= 2 /\ Float(parts[1]) # <<>> /\ Float(parts[2]) # <<>>
     THEN <<Float(parts[1])[1], Float(parts[2])[1]>>
     ELSE <<0, 0>>

\* local variables of a call while it waits for the generation backend
NoLocals == [nearby_cities |-> <<>>, location |-> Absent, round |-> 0, attempt |-> 0,
             prompt |-> <<>>]
\* what a call has asked of its collaborators and of its cache services
NoCalls == [llm |-> 0, sleep |-> 0, geocode |-> 0, nearby |-> 0, reverse_geocode |-> 0,
            weather |-> 0, cache_get |-> 0, cache_hit |-> 0, cache_set |-> 0,
            cache_stored |-> 0]
NoScript == [location |-> Absent, llm |-> <<>>, forecast |-> Absent]

PipeIdle ==
  /\ pc = [i \in Calls |-> "off"]
  /\ request = [i \in Calls |-> GoodRequest]
  /\ service = [i \in Calls |-> "s1"]
  /\ locals = [i \in Calls |-> NoLocals]
  /\ calls = [i \in Calls |-> NoCalls]
  /\ response = [i \in Calls |-> Absent]
  /\ ollama = "answers" /\ replay = FALSE /\ script = NoScript

\* The state a call works on: the in-process maps of the two CacheService
\* objects of its ItineraryService, the collection, and its own variables.
World(i) ==
  [memory_itinerary |-> _memory_cache[<<service[i], "itinerary">>],
   memory_llm |-> _memory_cache[<<service[i], "llm">>],
   documents |-> documents,
   locals |-> locals[i], calls |-> calls[i], response |-> response[i],
   pc |-> pc[i], forecast_used |-> FALSE]
ItineraryCache(i, w) == [cache_enabled |-> cache_enabled[service[i]],
                         collection |-> collection[service[i]],
                         memory |-> w.memory_itinerary]
LLMCache(i, w) == [cache_enabled |-> cache_enabled[service[i]],
                   collection |-> collection[service[i]],
                   memory |-> w.memory_llm]
\* the cache holds the stored dict itself when it is an in-process map
InProcess(i) == cache_enabled[service[i]] /\ ~collection[service[i]]

\* the day dicts of plan as they are after the pipeline has updated the
\* objects, which enriched_plan lists in route order
UpdatedObjects(plan, enriched_plan) ==
  [j \in 1..Len(plan) |->
     IF \E k \in 1..Len(enriched_plan) : enriched_plan[k].obj = plan[j].obj
     THEN enriched_plan[CHOOSE k \in 1..Len(enriched_plan) : enriched_plan[k].obj = plan[j].obj]
     ELSE plan[j]]

\* generate_itinerary from the enrichment of raw_plan to its return
Complete(i, w, t, raw_plan, forecast) ==
  LET r == request[i]
      origin == _parse_coordinates(r.destination)
      sorted_dates == SortedDates(r.travel_dates)
      enriched_plan == _enrich_and_optimize_plan(origin, raw_plan, r.radius, sorted_dates)
      weather_data == _get_weather_data(forecast, sorted_dates)
      built == _build_response(enriched_plan, w.locals.nearby_cities, origin, r.radius,
                               DateStrings(sorted_dates), Len(sorted_dates), weather_data,
                               t, cache_enabled[service[i]])
      h == HashOf(LLMArgs(r))
      llm_memory == IF InProcess(i) /\ h \in DOMAIN w.memory_llm
                    THEN [w.memory_llm EXCEPT ![h].response_data.plan =
                            UpdatedObjects(@, enriched_plan)]
                    ELSE w.memory_llm
      st == cache_response(ItineraryCache(i, w), mongoUp, w.documents, t,
                           ItineraryArgs(r), built)
  IN [w EXCEPT !.memory_itinerary = st.memory,
               !.memory_llm = llm_memory,
               !.documents = st.documents,
               !.calls = [@ EXCEPT !.geocode = @ + Len(raw_plan),
                                   !.weather = @ + 1,
                                   !.cache_set = @ + 1,
                                   !.cache_stored = @ + (IF st.result THEN 1 ELSE 0)],
               !.locals = NoLocals,
               !.response = Some([status |-> 200, body |-> built]),
               !.pc = "done",
               !.forecast_used = TRUE]

\* ItineraryService._generate_plan_with_fallback and LLMService.generate_plan
\* with the head of LLMService.generate_itinerary: round 1 is the first call
\* of generate_plan, round 2 the one made when the first gave an empty plan.
\* A cached itinerary ends the round at once; otherwise the location and
\* weather context of the prompt is fetched and the call waits for the
\* generation backend.
RECURSIVE GeneratePlan(_, _, _, _, _)
\* what follows the return of generate_plan
PlanReturned(i, w, t, round, plan, forecast) ==
  IF plan # <<>> \/ round = 2
  THEN Complete(i, w, t, plan, forecast)
  ELSE GeneratePlan(i, w, t, 2, forecast)
GeneratePlan(i, w, t, round, forecast) ==
  LET g == get_cached_response(LLMCache(i, w), mongoUp, w.documents, t, LLMArgs(request[i]))
      looked == [w EXCEPT !.memory_llm = g.memory,
                          !.calls = [@ EXCEPT !.cache_get = @ + 1,
                                              !.cache_hit = @ + (IF g.response # Absent THEN 1 ELSE 0)]]
  IN IF g.response # Absent
     THEN PlanReturned(i, looked, t, round, g.response[1].plan, forecast)
     ELSE [looked EXCEPT !.calls = [@ EXCEPT !.reverse_geocode = @ + 1,
                                             !.nearby = @ + 1,
                                             !.weather = @ + 1],
                         !.locals = [@ EXCEPT !.round = round, !.attempt = 0, !.prompt = <<>>],
                         !.pc = "backend"]

\* LLMService.generate_itinerary from the return of _generate_with_retries
Generated(i, w, t, structured_itinerary, forecast) ==
  LET r == request[i]
      enhanced == _enhance_itinerary(structured_itinerary,
                                     LLMParseCoordinates(r.destination),
                                     IF w.locals.location = Absent THEN <<>>
                                     ELSE w.locals.location[1].nearby_cities,
                                     DateStrings(r.travel_dates),
                                     t, cache_enabled[service[i]])
      st == cache_response(LLMCache(i, w), mongoUp, w.documents, t, LLMArgs(r), enhanced)
      stored == [w EXCEPT !.memory_llm = st.memory,
                          !.documents = st.documents,
                          !.calls = [@ EXCEPT !.cache_set = @ + 1,
                                              !.cache_stored = @ + (IF st.result THEN 1 ELSE 0)]]
  IN PlanReturned(i, stored, t, w.locals.round, enhanced.plan, forecast)

\* ItineraryService.generate_itinerary behind the route, from the arrival of
\* the request to its first wait for the generation backend, or to its end
Received(i, w, t, location, forecast) ==
  LET r == request[i]
      g == get_cached_response(ItineraryCache(i, w), mongoUp, w.documents, t, ItineraryArgs(r))
      looked == [w EXCEPT !.memory_itinerary = g.memory,
                          !.calls = [@ EXCEPT !.cache_get = @ + 1,
                                              !.cache_hit = @ + (IF g.response # Absent THEN 1 ELSE 0)]]
      cached_response ==
        [g.response[1] EXCEPT !.cache_info =
           [from_cache |-> TRUE, generated_at |-> g.response[1].generated_at,
            cache_enabled |-> cache_enabled[service[i]]]]
  IN IF _validate_request(r) # Absent
     THEN \* the route answers a ValueError with HTTPException(status_code=400)
          [w EXCEPT !.response = Some([status |-> 400,
                                       body |-> [detail |-> _validate_request(r)[1]]]),
                    !.pc = "done"]
     ELSE IF g.response # Absent
     THEN [looked EXCEPT
             !.memory_itinerary =
                IF g.source = "memory"
                THEN [@ EXCEPT ![HashOf(ItineraryArgs(r))].response_data = cached_response]
                ELSE @,
             !.response = Some([status |-> 200, body |-> cached_response]),
             !.pc = "done"]
     ELSE IF _parse_coordinates(r.destination) = <<>>
     THEN [looked EXCEPT !.response = Some([status |-> 200, body |-> [plan |-> <<>>]]),
                         !.pc = "done"]
     ELSE GeneratePlan(i,
            [looked EXCEPT !.calls = [@ EXCEPT !.nearby = @ + 1, !.reverse_geocode = @ + 1],
                           !.locals = [@ EXCEPT !.nearby_cities = _get_location_context(location),
                                                !.location = Some(location)]],
            t, 1, forecast)

\* a retry loop that, when its last attempt has failed, asks again with
\* another prompt
AnsweredAskingAgain(i, w, t, answer, forecast) ==
  LET r == request[i]
      travel_dates == DateStrings(r.travel_dates)
      called == [w EXCEPT !.calls = [@ EXCEPT !.llm = @ + 1]]
      attempt == w.locals.attempt
  IN IF answer.kind = "plan"
     THEN Generated(i, called, t, [plan |-> GeneratedPlan(answer.days, travel_dates)], forecast)
     ELSE IF attempt < max_retries
     THEN [called EXCEPT
             !.calls = [@ EXCEPT !.sleep = @ + 1],
             !.locals = [@ EXCEPT !.attempt = attempt + 1,
                                  !.prompt = IF answer.kind = "invalid"
                                             THEN _modify_prompt_for_retry(@, attempt)
                                             ELSE @]]
     ELSE [w EXCEPT !.locals = [@ EXCEPT !.prompt = IF @ = <<>> THEN <<max_retries>> ELSE <<>>]]
\* LLMService._generate_with_retries after the backend has answered attempt
\* number w.locals.attempt, up to the next wait or to the end of the call
Answered(i, w, t, answer, forecast) ==
  LET r == request[i]
      travel_dates == DateStrings(r.travel_dates)
      called == [w EXCEPT !.calls = [@ EXCEPT !.llm = @ + 1]]
      attempt == w.locals.attempt
  IN IF answer.kind = "plan"
     THEN Generated(i, called, t, [plan |-> GeneratedPlan(answer.days, travel_dates)], forecast)
     ELSE IF attempt < max_retries
     THEN [called EXCEPT
             !.calls = [@ EXCEPT !.sleep = @ + 1],
             !.locals = [@ EXCEPT !.attempt = attempt + 1,
                                  !.prompt = IF answer.kind = "invalid"
                                             THEN _modify_prompt_for_retry(@, attempt)
                                             ELSE @]]
     ELSE Generated(i, called, t, _create_fallback_itinerary(travel_dates), forecast)

(***************************************************************************)
(* Specification SpecHash: the cache key of two argument tuples that       *)
(* differ in at most one argument.                                         *)
(***************************************************************************)
DiffersInOneArg(a, b) ==
  Cardinality({f \in {"destination", "travel_dates", "preferences", "radius"} : a[f] # b[f]}) <= 1

HashInit ==
  /\ hArgsA \in CacheArgs
  /\ hArgsB \in {b \in CacheArgs : DiffersInOneArg(hArgsA, b)}
  /\ hKeyA = <<>> /\ hKeyB = <<>>
  /\ hPc = "ready"
  /\ RouteIdle
  /\ CacheIdle
  /\ PipeIdle
  /\ CallIdle

GenerateHash ==
  /\ hPc = "ready"
  /\ hKeyA' = <<HashOf(hArgsA)>>
  /\ hKeyB' = <<HashOf(hArgsB)>>
  /\ hPc' = "done"
  /\ UNCHANGED <<hArgsA, hArgsB, hashFrame>>

HashNext == GenerateHash
SpecHash == HashInit /\ [][HashNext]_vars

(***************************************************************************)
(* Specification SpecRoute: one call of optimize_route.                    *)
(***************************************************************************)
RouteInit ==
  /\ rStart \in Origins
  /\ rDays \in RouteDayLists \cup LineDayLists
  /\ rOut = <<>>
  /\ rPc = "ready"
  /\ HashIdle
  /\ CacheIdle
  /\ PipeIdle
  /\ CallIdle

OptimizeRoute ==
  /\ rPc = "ready"
  /\ rOut' = optimize_route(rStart, rDays)
  /\ rPc' = "done"
  /\ UNCHANGED <<rStart, rDays, routeFrame>>

RouteNext == OptimizeRoute
SpecRoute == RouteInit /\ [][RouteNext]_vars

(***************************************************************************)
(* Specification SpecCache: calls of cache_response, get_cached_response   *)
(* and cleanup_expired_cache on the CacheService of one service, in any    *)
(* order, in each configuration.                                           *)
(***************************************************************************)
BaseArgs == [destination |-> LatLng("1", "0"),
             travel_dates |-> <<DateStr(DateBase + 2), DateStr(DateBase + 1)>>,
             preferences |-> [interests |-> <<"Food", "History">>],
             radius |-> 50]
SomeArgs == {BaseArgs,
             [BaseArgs EXCEPT !.travel_dates = <<DateStr(DateBase + 1), DateStr(DateBase + 2)>>],
             [BaseArgs EXCEPT !.preferences = [interests |-> <<"History", "Food">>]],
             [BaseArgs EXCEPT !.radius = 100],
             [BaseArgs EXCEPT !.destination = LatLng("2", "1")]}
Payloads == {"payload1", "payload2"}
TheCache == <<"s1", "itinerary">>

CacheInit ==
  /\ ConfigInit(CacheConfigs)
  /\ StoreInit
  /\ CacheCallsIdle
  /\ HashIdle
  /\ RouteIdle
  /\ PipeIdle
  /\ CallIdle

CacheResponse(args, response_data) ==
  LET r == cache_response(Self("s1", "itinerary"), mongoUp, documents, now, args, response_data)
  IN /\ _memory_cache' = [_memory_cache EXCEPT ![TheCache] = r.memory]
     /\ documents' = r.documents
     /\ cPrev' = cLast
     /\ cLast' = <<[op |-> "cache_response", args |-> args,
                     response_data |-> <<response_data>>, result |-> r.result, at |-> now]>>
     /\ cStored' = IF r.result
                   THEN [h \in DOMAIN cStored \cup {HashOf(args)} |->
                           IF h = HashOf(args) THEN response_data ELSE cStored[h]]
                   ELSE cStored
     /\ UNCHANGED <<now, configVars, cacheFrame>>

GetCachedResponse(args) ==
  LET r == get_cached_response(Self("s1", "itinerary"), mongoUp, documents, now, args)
  IN /\ _memory_cache' = [_memory_cache EXCEPT ![TheCache] = r.memory]
     /\ cPrev' = cLast
     /\ cLast' = <<[op |-> "get_cached_response", args |-> args,
                     response_data |-> r.response, result |-> r.response # Absent, at |-> now]>>
     /\ UNCHANGED <<cStored, documents, now, configVars, cacheFrame>>

CleanupExpiredCache ==
  LET r == cleanup_expired_cache(Self("s1", "itinerary"), mongoUp, documents, now)
  IN /\ _memory_cache' = [_memory_cache EXCEPT ![TheCache] = r.memory]
     /\ documents' = r.documents
     /\ cPrev' = cLast
     /\ cLast' = <<[op |-> "cleanup_expired_cache", args |-> BaseArgs,
                     response_data |-> Absent, result |-> TRUE, at |-> now]>>
     /\ UNCHANGED <<cStored, now, configVars, cacheFrame>>

CacheNext ==
  \/ \E args \in SomeArgs, p \in Payloads : CacheResponse(args, p)
  \/ \E args \in SomeArgs : GetCachedResponse(args)
  \/ CleanupExpiredCache
SpecCache == CacheInit /\ [][CacheNext]_vars

(***************************************************************************)
(* Specification Spec: two requests to /generate-itinerary, one after the  *)
(* other, served by one ItineraryService.  A call takes a step when it is  *)
(* received and whenever the generation backend answers it.                *)
(***************************************************************************)
\* The nearby-cities provider, the reverse geocoder and the weather provider
\* answer a question they have been asked before as they answered it then
\* (every call of a behaviour asks for the same place and dates); script
\* keeps their answers.  The generation backend is free to answer each call
\* differently, unless replay is set: then the second request gets the
\* answers the first one got, in the same order.
FollowsLocation(location) ==
  script.location # Absent => location = script.location[1]
FollowsForecast(forecast) ==
  script.forecast # Absent => forecast = script.forecast[1]
\* a backend that is down fails every call (connection error or timeout), one
\* that is up answers every call with text that holds a valid plan
OllamaAnswers ==
  IF ollama = "down" THEN {a \in LLMAnswers : a.kind = "error"}
  ELSE IF ollama = "up" THEN {a \in LLMAnswers : a.kind = "plan"}
  ELSE LLMAnswers
FollowsLLM(i, answer) ==
  (replay /\ i = 2 /\ calls[i].llm + 1 <= Len(script.llm)) => answer = script.llm[calls[i].llm + 1]
Recorded(w, location, forecast) ==
  [script EXCEPT !.location = IF w.calls.nearby > 0 THEN Some(location) ELSE @,
                 !.forecast = IF w.forecast_used THEN Some(forecast) ELSE @]

Commit(i, w) ==
  /\ _memory_cache' = [_memory_cache EXCEPT ![<<service[i], "itinerary">>] = w.memory_itinerary,
                                            ![<<service[i], "llm">>] = w.memory_llm]
  /\ documents' = w.documents
  /\ pc' = [pc EXCEPT ![i] = w.pc]
  /\ locals' = [locals EXCEPT ![i] = w.locals]
  /\ calls' = [calls EXCEPT ![i] = w.calls]
  /\ response' = [response EXCEPT ![i] = w.response]
  /\ UNCHANGED <<request, service, ollama, replay, configVars, pipeFrame>>

\* a request arrives at the route
Arrive(i) ==
  /\ pc[i] = "idle"
  /\ now' = now + 1
  /\ \E location \in LocationAnswers, forecast \in ForecastAnswers :
       /\ FollowsLocation(location)
       /\ FollowsForecast(forecast)
       /\ LET w == Received(i, World(i), now + 1, location, forecast)
          IN /\ Commit(i, w)
             /\ script' = Recorded(w, location, forecast)

\* a request arrives after the requests before it have been answered
Receive(i) ==
  /\ \A j \in Calls : j < i => pc[j] = "done"
  /\ Arrive(i)

BackendAnswers(i) ==
  /\ pc[i] = "backend"
  /\ UNCHANGED now
  /\ \E answer \in OllamaAnswers, forecast \in ForecastAnswers :
       /\ FollowsLLM(i, answer)
       /\ FollowsForecast(forecast)
       /\ LET w == Answered(i, World(i), now, answer, forecast)
              location == IF script.location = Absent THEN <<>> ELSE script.location[1]
          IN /\ Commit(i, w)
             /\ script' = [Recorded(w, location, forecast) EXCEPT
                             !.llm = IF replay /\ i = 1 THEN Append(@, answer) ELSE @]

PipeInit(requests) ==
  /\ pc = [i \in Calls |-> "idle"]
  /\ request \in requests
  /\ locals = [i \in Calls |-> NoLocals]
  /\ calls = [i \in Calls |-> NoCalls]
  /\ response = [i \in Calls |-> Absent]
  /\ script = NoScript
  /\ StoreInit
  /\ CacheCallsIdle
  /\ HashIdle
  /\ RouteIdle
  /\ CallIdle

Init ==
  /\ PipeInit([Calls -> Requests])
  /\ service = [i \in Calls |-> "s1"]
  /\ ollama \in {"answers", "down"}
  /\ replay = FALSE
  /\ ConfigInit(CacheConfigs)

Next == \E i \in Calls : Receive(i) \/ BackendAnswers(i)

Spec == Init /\ [][Next]_vars

(***************************************************************************)
(* Specification SpecCacheFailure: the same request served twice with the  *)
(* same collaborator answers, first by a service whose cache backend       *)
(* raises on every operation, then by a service with caching disabled.     *)
(***************************************************************************)
CacheFailureInit ==
  /\ PipeInit({[i \in Calls |-> GoodRequest]})
  /\ service = [i \in Calls |-> IF i = 1 THEN "s1" ELSE "s2"]
  /\ ollama = "answers"
  /\ replay = TRUE
  /\ cache_enabled = [s \in Services |-> s = "s1"]
  /\ collection = [s \in Services |-> s = "s1"]
  /\ mongoUp = FALSE

SpecCacheFailure == CacheFailureInit /\ [][Next]_vars


(***************************************************************************)
(* Claims about the cache key.                                             *)
(***************************************************************************)
SameButFor(a, b, field) ==
  \A f \in {"destination", "travel_dates", "preferences", "radius"} \ {field} : a[f] = b[f]

\* C2: two argument tuples with the same destination, preferences and radius
\* whose travel-date lists are permutations of each other get the same key.
C2_KeyInvariantUnderDatePermutation ==
  (/\ hPc = "done"
   /\ SameButFor(hArgsA, hArgsB, "travel_dates")
   /\ IsPermutation(hArgsA.travel_dates, hArgsB.travel_dates))
  => hKeyA = hKeyB

C2_Witness ==
  /\ hPc = "done"
  /\ SameButFor(hArgsA, hArgsB, "travel_dates")
  /\ hArgsA.travel_dates # hArgsB.travel_dates
  /\ IsPermutation(hArgsA.travel_dates, hArgsB.travel_dates)
  /\ hKeyA = hKeyB

\* C3: two argument tuples that differ only in the order of the interests
\* list get the same key.
C3_KeyInvariantUnderInterestPermutation ==
  (/\ hPc = "done"
   /\ SameButFor(hArgsA, hArgsB, "preferences")
   /\ IsPermutation(hArgsA.preferences.interests, hArgsB.preferences.interests))
  => hKeyA = hKeyB

(***************************************************************************)
(* Claims about the route optimizer.                                       *)
(***************************************************************************)
\* C9: the output of optimize_route holds exactly the stops of its input,
\* none created, dropped or duplicated.
C9_RouteIsPermutation ==
  rPc = "done" => IsPermutation(Stops(rOut), Stops(rDays))

C9_Witness ==
  /\ rPc = "done"
  /\ Len(rDays) = MaxRouteDays
  /\ Stops(rOut) # Stops(rDays)
  /\ IsPermutation(Stops(rOut), Stops(rDays))
  /\ \E i, j \in 1..Len(rDays) : i # j /\ DayCoords(rDays[i]) = DayCoords(rDays[j])

\* C10 as stated: for every non-empty list of days the first day of the
\* returned order has travel_distance_km = 0.
C10_FirstDayZeroForNonEmpty ==
  (rPc = "done" /\ Len(rDays) >= 1) => rOut[1].travel_distance_km = Some(0)

\* C10 amended: for every list of at least two days the first day of the
\* returned order has travel_distance_km = 0.
C10_FirstDayZeroForTwoOrMore ==
  (rPc = "done" /\ Len(rDays) >= 2) => rOut[1].travel_distance_km = Some(0)

C10_Witness ==
  /\ rPc = "done"
  /\ Len(rDays) >= 2
  /\ DayCoords(rOut[1]) # rStart
  /\ rOut[1].travel_distance_km = Some(0)
  /\ rOut[2].travel_distance_km # Some(0)

\* the position from which the day placed k-th was chosen
PositionBefore(k) == IF k = 1 THEN rStart ELSE DayCoords(rOut[k - 1])

\* C11: at every step of optimize_route the day placed is one of least
\* distance from the current position (the origin, then the day placed
\* last) among the days not yet placed; three stops on a line on one side of
\* the origin are visited in increasing distance from the origin whatever
\* their input order.
C11_NearestNeighbourStep ==
  (rPc = "done" /\ Len(rDays) >= 2) =>
    /\ \A k \in 1..Len(rOut) : \A j \in k..Len(rOut) :
         calculate_distance_km(PositionBefore(k), DayCoords(rOut[k]))
           <= calculate_distance_km(PositionBefore(k), DayCoords(rOut[j]))
    /\ (rStart = <<1, 0>> /\ rDays \in LineDayLists) =>
         [k \in 1..Len(rOut) |-> DayCoords(rOut[k])] = LineStops

C11_Witness ==
  /\ rPc = "done"
  /\ rStart = <<1, 0>>
  /\ [k \in 1..Len(rDays) |-> DayCoords(rDays[k])] = <<<<4, 0>>, <<2, 0>>, <<3, 0>>>>
  /\ [k \in 1..Len(rOut) |-> DayCoords(rOut[k])] = LineStops

\* C35: after optimize_route on two or more days the i-th day of the output
\* has day = i and a route trail that is the list of the coordinates of the
\* output days 1..i in output order.
C35_RenumberedWithCumulativeTrail ==
  (rPc = "done" /\ Len(rDays) >= 2) =>
    \A i \in 1..Len(rOut) :
      /\ rOut[i].day = Some(i)
      /\ rOut[i].route # Absent
      /\ Len(rOut[i].route[1]) = i
      /\ \A k \in 1..i : rOut[i].route[1][k] = DayCoords(rOut[k])

C35_Witness ==
  /\ rPc = "done"
  /\ Len(rDays) = MaxRouteDays
  /\ \A i \in 1..Len(rDays) : rDays[i].day = Some(i)
  /\ DayCoords(rOut[1]) = DayCoords(rDays[Len(rDays)])
  /\ DayCoords(rOut[1]) # DayCoords(rDays[1])
  /\ DayCoords(rOut[2]) # DayCoords(rOut[1])
  /\ rOut[1].day = Some(1)
  /\ rOut[Len(rOut)].route = Some([k \in 1..Len(rOut) |-> DayCoords(rOut[k])])

\* C36: optimize_route given no day or one day returns the list it was
\* given: the same elements, no field added or modified.
C36_ShortListUnchanged ==
  (rPc = "done" /\ Len(rDays) <= 1) => rOut = rDays

C36_Witness ==
  /\ rPc = "done"
  /\ Len(rDays) = 1
  /\ DayCoords(rDays[1]) # rStart
  /\ rOut = rDays
  /\ rOut[1].route = Absent /\ rOut[1].travel_distance_km = Absent

(***************************************************************************)
(* Claims about the cache service.                                         *)
(***************************************************************************)
\* C4: when cache_response returns True, a get_cached_response that follows
\* it immediately with the same four request arguments returns exactly the
\* stored payload.
C4_RoundTrip ==
  (/\ cPrev # <<>> /\ cLast # <<>>
   /\ cPrev[1].op = "cache_response" /\ cPrev[1].result
   /\ cLast[1].op = "get_cached_response"
   /\ cLast[1].args = cPrev[1].args)
  => cLast[1].response_data = cPrev[1].response_data

C4_Witness ==
  /\ cPrev # <<>> /\ cLast # <<>>
  /\ cPrev[1].op = "cache_response" /\ cPrev[1].result
  /\ cLast[1].op = "get_cached_response"
  /\ cLast[1].args = cPrev[1].args
  /\ cLast[1].response_data = cPrev[1].response_data
  /\ collection["s1"]

(***************************************************************************)
(* Claims about the request pipeline (Spec, SpecCacheFailure).             *)
(***************************************************************************)
Done(i) == pc[i] = "done"
Status(i) == response[i][1].status
Body(i) == response[i][1].body
\* a valid request: _validate_request accepts it and its destination parses
ValidRequest(r) == _validate_request(r) = Absent /\ _parse_coordinates(r.destination) # <<>>
Fresh(i) == /\ Status(i) = 200
            /\ "cache_info" \in DOMAIN Body(i)
            /\ Body(i).cache_info.from_cache = FALSE
FromCache(i) == /\ Status(i) = 200
                /\ "cache_info" \in DOMAIN Body(i)
                /\ Body(i).cache_info.from_cache = TRUE
NoCollaboratorCalls(i) ==
  /\ calls[i].llm = 0 /\ calls[i].geocode = 0 /\ calls[i].nearby = 0
  /\ calls[i].reverse_geocode = 0 /\ calls[i].weather = 0
\* the cache service stores in its in-process map or in a collection whose
\* server answers
CacheOperative(s) == cache_enabled[s] /\ (collection[s] => mongoUp)
IsFallbackDay(day) == day.town = "Destination" /\ day.place = "City Center"

\* C1: for every valid request, whatever the generator returns, the plan of
\* the response has exactly as many day entries as the request has travel
\* dates.
C1_PlanHasOneDayPerDate ==
  \A i \in Calls :
    (Done(i) /\ ValidRequest(request[i])) =>
      /\ Status(i) = 200
      /\ Len(Body(i).plan) = Len(request[i].travel_dates)

\* C5: on one ItineraryService with caching enabled, after a request has been
\* answered with a freshly generated response, the identical request that
\* follows is answered from the cache (cache_info.from_cache = true) without
\* any call to the generation backend, the geocoder, the nearby-cities
\* provider or the weather provider.
C5_RepeatIsServedFromCache ==
  (/\ cache_enabled["s1"] /\ service[1] = "s1" /\ service[2] = "s1"
   /\ Done(1) /\ Done(2) /\ request[2] = request[1] /\ Fresh(1)) =>
    FromCache(2) /\ NoCollaboratorCalls(2)

\* The same with a cache service whose store takes the entry: the repeat is
\* served from the cache.
RepeatIsServedFromOperativeCache ==
  (/\ CacheOperative("s1") /\ service[1] = "s1" /\ service[2] = "s1"
   /\ Done(1) /\ Done(2) /\ request[2] = request[1] /\ Fresh(1)) =>
    FromCache(2) /\ NoCollaboratorCalls(2) /\ Body(2).plan = Body(1).plan

\* C6: when every call to the generation backend fails for a valid request,
\* the request is answered, not failed, with a response that has one fallback
\* day per requested date and is marked fresh, and the response is cached:
\* the identical request that follows is answered from the cache.
C6_BackendDownServesCachedFallback ==
  (/\ ollama = "down" /\ cache_enabled["s1"] /\ service[1] = "s1" /\ service[2] = "s1"
   /\ ValidRequest(request[1]) /\ request[2] = request[1] /\ Done(1) /\ Done(2)) =>
    /\ Fresh(1)
    /\ Len(Body(1).plan) = Len(request[1].travel_dates)
    /\ \A j \in 1..Len(Body(1).plan) : IsFallbackDay(Body(1).plan[j])
    /\ FromCache(2)

\* The part of C6 that does not depend on the cache: a backend that fails
\* every call gives a fresh response with one fallback day per date, after
\* max_retries + 1 calls; and with a store that takes the entry the repeat is
\* served from the cache.
BackendDownServesFallback ==
  \A i \in Calls :
    (ollama = "down" /\ Done(i) /\ ValidRequest(request[i]) /\ ~FromCache(i)) =>
      /\ Fresh(i)
      /\ calls[i].llm = max_retries + 1
      /\ Len(Body(i).plan) = Len(request[i].travel_dates)
      /\ \A j \in 1..Len(Body(i).plan) : IsFallbackDay(Body(i).plan[j])
BackendDownFallbackIsCachedWhenOperative ==
  (/\ ollama = "down" /\ CacheOperative("s1") /\ service[1] = "s1" /\ service[2] = "s1"
   /\ ValidRequest(request[1]) /\ request[2] = request[1] /\ Done(1) /\ Done(2)) =>
    FromCache(2) /\ calls[2].llm = 0

\* C7: every invalid request (empty destination, no travel dates, or a
\* destination that does not parse to coordinates) is rejected with a
\* client-error response, is never answered with a successful payload, and
\* causes no generation call.
C7_InvalidRequestIsRejected ==
  \A i \in Calls :
    (Done(i) /\ ~ValidRequest(request[i])) =>
      Status(i) = 400 /\ calls[i].llm = 0

\* What the code does for invalid requests: those _validate_request refuses
\* get status 400; no invalid request causes a generation call.
RefusedRequestIsRejected ==
  \A i \in Calls :
    (Done(i) /\ ~ValidRequest(request[i])) =>
      /\ calls[i].llm = 0
      /\ _validate_request(request[i]) # Absent => Status(i) = 400

\* C13: when every generation attempt of the retry controller fails, the
\* fallback plan takes its towns in turn from the de-duplicated nearby
\* cities of the request, so that with two or more distinct nearby cities
\* neighbouring days of the plan differ in town.
C13_RetryFallbackCyclesCities ==
  \A i \in Calls :
    (/\ ollama = "down" /\ Done(i) /\ Fresh(i)
     /\ calls[i].llm = max_retries + 1
     /\ Cardinality(Range(Body(i).nearby_cities)) >= 2) =>
      /\ \A j \in 1..Len(Body(i).plan) :
           Body(i).plan[j].town \in Range(Body(i).nearby_cities)
      /\ \A j \in 1..(Len(Body(i).plan) - 1) :
           Body(i).plan[j].town # Body(i).plan[j + 1].town

\* a store directly followed by a lookup with the same arguments
StoreThenLookup ==
  /\ cPrev # <<>> /\ cLast # <<>>
  /\ cPrev[1].op = "cache_response" /\ cLast[1].op = "get_cached_response"
  /\ cLast[1].args = cPrev[1].args

\* C15: a cache service constructed with its backend absent or unreachable
\* uses its in-process map: cache_response returns True and a following
\* get_cached_response with the same arguments returns the stored payload.
C15_NoBackendFallsBackToMemory ==
  (cache_enabled["s1"] /\ ~(collection["s1"] /\ mongoUp)) =>
    /\ (cLast # <<>> /\ cLast[1].op = "cache_response") => cLast[1].result
    /\ StoreThenLookup => cLast[1].response_data = cPrev[1].response_data

\* What the code does: the in-process map is used when the backend is
\* absent, and nothing is stored when the backend is unreachable.
AbsentBackendFallsBackToMemory ==
  /\ (cache_enabled["s1"] /\ ~collection["s1"]) =>
       /\ (cLast # <<>> /\ cLast[1].op = "cache_response") => cLast[1].result
       /\ StoreThenLookup => cLast[1].response_data = cPrev[1].response_data
  /\ (cache_enabled["s1"] /\ collection["s1"] /\ ~mongoUp) =>
       /\ (cLast # <<>> /\ cLast[1].op = "cache_response") => ~cLast[1].result
       /\ (cLast # <<>> /\ cLast[1].op = "get_cached_response") => ~cLast[1].result
       /\ _memory_cache[TheCache] = EmptyDict

(***************************************************************************)
(* Specification SpecPerRequest: the /generate-itinerary route serving the *)
(* same request twice, one after the other, in one process.                *)
(***************************************************************************)
\* get_itinerary_service: the ItineraryService, with its own CacheService,
\* that Depends constructs for the i-th request
get_itinerary_service(i) == IF i = 1 THEN "s1" ELSE "s2"

PerRequestInit ==
  /\ PipeInit({[i \in Calls |-> r] : r \in Requests})
  /\ service = [i \in Calls |-> get_itinerary_service(i)]
  /\ ollama \in {"answers", "down"}
  /\ replay = FALSE
  /\ ConfigInit(CacheConfigs)

PerRequestNext ==
  \E i \in Calls :
    /\ i > 1 => Done(i - 1)
    /\ Receive(i) \/ BackendAnswers(i)

SpecPerRequest == PerRequestInit /\ [][PerRequestNext]_vars

\* C16: without a persistent backend, an entry stored while the route serves
\* one request is found by the lookup of a later identical request to the
\* route in the same process, which is served from cache.
C16_InProcessCacheOutlivesRequest ==
  (/\ InProcess(1) /\ InProcess(2) /\ Done(1) /\ Done(2)
   /\ Fresh(1) /\ calls[1].cache_stored > 0) =>
    FromCache(2)

\* What the route does: with in-process caches the later request never finds
\* the earlier one's entry; with a collection whose server answers it does.
InProcessCacheIsPerRequest ==
  /\ (InProcess(1) /\ InProcess(2) /\ Done(1) /\ Done(2)) =>
       ~FromCache(2) /\ (ValidRequest(request[2]) => calls[2].llm > 0)
  /\ (/\ cache_enabled["s1"] /\ collection["s1"] /\ mongoUp
      /\ Done(1) /\ Done(2) /\ Fresh(1)) =>
       FromCache(2)

\* the keys of the cache and the payload each holds
Entries ==
  [memory |-> [h \in DOMAIN _memory_cache[TheCache] |-> _memory_cache[TheCache][h].response_data],
   documents |-> {<<d.request_hash, d.response_data>> : d \in documents}]
IsStore(call, args, p) ==
  /\ call # <<>> /\ call[1].op = "cache_response" /\ call[1].result
  /\ call[1].args = args /\ call[1].response_data = <<p>>

\* C17: cache_response is an upsert on the request digest: the cache never
\* holds two entries with one key, a lookup of a key that was stored returns
\* the payload of the latest store for that key, and a store that repeats
\* the store before it leaves the keys and payloads of the cache as they are.
C17_StoreIsUpsert ==
  /\ [](/\ \A d1, d2 \in documents : d1.request_hash = d2.request_hash => d1 = d2
        /\ (/\ cLast # <<>> /\ cLast[1].op = "get_cached_response"
            /\ HashOf(cLast[1].args) \in DOMAIN cStored) =>
             cLast[1].response_data = Some(cStored[HashOf(cLast[1].args)]))
  /\ [][\A args \in SomeArgs, p \in Payloads :
          (IsStore(cLast, args, p) /\ IsStore(cLast', args, p) /\ cPrev' = cLast) =>
            Entries' = Entries]_vars
C17_Witness ==
  /\ cPrev # <<>> /\ cPrev[1].op = "cache_response" /\ cPrev[1].result
  /\ cPrev[1].response_data = <<"payload1">>
  /\ cLast # <<>> /\ cLast[1].op = "get_cached_response"
  /\ cLast[1].response_data = <<"payload2">>
  /\ cStored[HashOf(cLast[1].args)] = "payload2"
  /\ cPrev[1].args # cLast[1].args

(***************************************************************************)
(* Specification SpecCacheExpiry: a CacheService whose collection may hold *)
(* a document written with an expiry, while the clock advances.            *)
(***************************************************************************)
MaxNow == 3
ExpiryArgs == {BaseArgs, [BaseArgs EXCEPT !.radius = 100]}
\* a document of the collection that was not written by this process
OldDocument(expires_at) ==
  [request_hash |-> HashOf(BaseArgs),
   destination |-> BaseArgs.destination,
   travel_dates |-> BaseArgs.travel_dates,
   preferences |-> BaseArgs.preferences,
   radius |-> BaseArgs.radius,
   response_data |-> "old payload",
   created_at |-> 0,
   expires_at |-> expires_at]
OldCollections ==
  {{}} \cup {{OldDocument(e)} : e \in {Absent} \cup {Some(t) : t \in 1..(MaxNow - 1)}}

CacheExpiryInit ==
  /\ ConfigInit({cfg \in CacheConfigs : cfg.cache_enabled /\ cfg.mongoUp})
  /\ _memory_cache = [c \in Services \X CacheNames |-> EmptyDict]
  /\ documents \in IF collection["s1"] THEN OldCollections ELSE {{}}
  /\ now = 0
  /\ CacheCallsIdle
  /\ HashIdle
  /\ RouteIdle
  /\ PipeIdle
  /\ CallIdle

\* datetime.utcnow() returns a later time
Tick ==
  /\ now < MaxNow
  /\ now' = now + 1
  /\ UNCHANGED <<_memory_cache, documents, configVars, cacheCallVars, cacheFrame>>

CacheExpiryNext ==
  \/ \E args \in ExpiryArgs : CacheResponse(args, "payload1")
  \/ \E args \in ExpiryArgs : GetCachedResponse(args)
  \/ CleanupExpiredCache
  \/ Tick

SpecCacheExpiry == CacheExpiryInit /\ [][CacheExpiryNext]_vars

(***************************************************************************)
(* Specification SpecCacheForever: a CacheService that starts with an      *)
(* empty store, under stores, lookups and sweeps while the clock advances. *)
(***************************************************************************)
CacheForeverNext ==
  \/ \E args \in ExpiryArgs, p \in Payloads : CacheResponse(args, p)
  \/ \E args \in ExpiryArgs : GetCachedResponse(args)
  \/ CleanupExpiredCache
  \/ Tick

SpecCacheForever == CacheInit /\ [][CacheForeverNext]_vars

\* the entries get_cached_response consults for a key
EntriesFor(request_hash) ==
  (IF collection["s1"] THEN {d \in documents : d.request_hash = request_hash} ELSE {})
    \cup (IF request_hash \in DOMAIN _memory_cache[TheCache]
          THEN {_memory_cache[TheCache][request_hash]} ELSE {})

\* C18: get_cached_response does not return the payload of an entry whose
\* expiry is set and before the time of the lookup, and it returns the
\* payload of an entry whose expiry is unset or after the time of the lookup.
C18_LookupIgnoresExpired ==
  (cLast # <<>> /\ cLast[1].op = "get_cached_response") =>
    \A e \in EntriesFor(HashOf(cLast[1].args)) :
      /\ (e.expires_at # Absent /\ e.expires_at[1] < cLast[1].at) =>
           cLast[1].response_data # Some(e.response_data)
      /\ (e.expires_at = Absent \/ (e.expires_at # Absent /\ e.expires_at[1] > cLast[1].at)) =>
           cLast[1].response_data = Some(e.response_data)
C18_Witness ==
  /\ cLast # <<>> /\ cLast[1].op = "get_cached_response" /\ ~cLast[1].result
  /\ \E e \in EntriesFor(HashOf(cLast[1].args)) :
       e.expires_at # Absent /\ e.expires_at[1] < cLast[1].at
  /\ cPrev # <<>> /\ cPrev[1].op = "get_cached_response" /\ cPrev[1].result
  /\ cPrev[1].args = cLast[1].args /\ cPrev[1].at < cLast[1].at

\* the step is a store for the key
StoresKey(request_hash) ==
  /\ cLast' # <<>> /\ cLast'[1].op = "cache_response"
  /\ HashOf(cLast'[1].args) = request_hash

C20_NearbyCitiesAreDistinct ==
  \A i \in Calls :
    (Done(i) /\ Fresh(i)) =>
      /\ \A a, b \in 1..Len(Body(i).nearby_cities) :
           a # b => Body(i).nearby_cities[a] # Body(i).nearby_cities[b]
      /\ "" \notin Range(Body(i).nearby_cities)

\* What the code guarantees: the list is the provider's list followed by the
\* non-empty reverse-geocoded city and region, whether or not they are in it.
NearbyCitiesAreProviderThenLocality ==
  \A i \in Calls :
    (Done(i) /\ Fresh(i)) =>
      \E answer \in LocationAnswers : Body(i).nearby_cities = _get_location_context(answer)

\* C22: for one request the generation backend is called at most
\* max_retries + 1 times, whichever path makes the calls.
C22_BackendCallsBounded ==
  \A i \in Calls : calls[i].llm <= max_retries + 1

\* What the code guarantees: each of the at most two runs of the retry loop
\* for a request makes at most max_retries + 1 calls.
BackendCallsBoundedPerRound ==
  \A i \in Calls :
    /\ locals[i].attempt <= max_retries + 1
    /\ locals[i].round <= 2
    /\ calls[i].llm <= 2 * (max_retries + 1)

(***************************************************************************)
(* Specification SpecRetries: one run of LLMService._generate_with_retries *)
(* for call 1, one step per answer of the generation backend. The answers  *)
(* are recorded in script.llm, the returned itinerary in response[1].      *)
(***************************************************************************)
RetryRequests == {[GoodRequest EXCEPT !.travel_dates = ds] : ds \in DateLists \ {<<>>}}

\* what an iteration of the loop does with the outcome of its attempt
RetryStepEarlyFallback(attempt, kind) ==
  IF kind = "plan" THEN "return"
  ELSE IF attempt + 1 < max_retries THEN "retry"
  ELSE "fallback"
RetryStep(attempt, kind) ==
  IF kind = "plan" THEN "return"
  ELSE IF attempt < max_retries THEN "retry"
  ELSE "fallback"

RetriesInit ==
  /\ pc = [i \in Calls |-> IF i = 1 THEN "backend" ELSE "idle"]
  /\ request \in {[i \in Calls |-> r] : r \in RetryRequests}
  /\ locals = [i \in Calls |-> NoLocals]
  /\ calls = [i \in Calls |-> NoCalls]
  /\ response = [i \in Calls |-> Absent]
  /\ script = NoScript
  /\ service = [i \in Calls |-> "s1"]
  /\ ollama = "answers"
  /\ replay = FALSE
  /\ CacheIdle
  /\ HashIdle
  /\ RouteIdle
  /\ CallIdle

GenerateWithRetries ==
  /\ pc[1] = "backend"
  /\ \E answer \in LLMAnswers :
       LET attempt == locals[1].attempt
           step == RetryStep(attempt, answer.kind)
           travel_dates == DateStrings(request[1].travel_dates)
       IN /\ calls' = [calls EXCEPT ![1].llm = @ + 1,
                                    ![1].sleep = @ + (IF step = "retry" THEN 1 ELSE 0)]
          /\ locals' = [locals EXCEPT
                          ![1].attempt = IF step = "retry" THEN attempt + 1 ELSE @,
                          ![1].prompt = IF step = "retry" /\ answer.kind = "invalid"
                                        THEN _modify_prompt_for_retry(@, attempt) ELSE @]
          /\ pc' = [pc EXCEPT ![1] = IF step = "retry" THEN "backend" ELSE "done"]
          /\ response' = [response EXCEPT ![1] =
                            IF step = "return"
                            THEN Some([plan |-> GeneratedPlan(answer.days, travel_dates)])
                            ELSE IF step = "fallback"
                            THEN Some(_create_fallback_itinerary(travel_dates))
                            ELSE @]
          /\ script' = [script EXCEPT !.llm = Append(@, answer)]
  /\ UNCHANGED <<request, service, ollama, replay, configVars, storeVars, pipeFrame>>

RetriesNext ==
  \/ GenerateWithRetries

SpecRetries == RetriesInit /\ [][RetriesNext]_vars

\* the answers before the last one, and how many of them did not parse
Earlier == SubSeq(script.llm, 1, Len(script.llm) - 1)
InvalidAmong(h) == Cardinality({k \in 1..Len(h) : h[k].kind = "invalid"})

\* C23: a run of _generate_with_retries ends with the first attempt that
\* yields a structurally valid plan, whose plan is the result: no call,
\* delay or prompt change follows it. The fallback itinerary is the result
\* only when max_retries + 1 attempts have all failed.
C23_FirstValidPlanIsReturned ==
  LET h == script.llm
      travel_dates == DateStrings(request[1].travel_dates)
  IN /\ calls[1].llm = Len(h)
     /\ \A k \in 1..(Len(h) - 1) : h[k].kind # "plan"
     /\ (h # <<>> /\ h[Len(h)].kind = "plan") =>
          /\ pc[1] = "done"
          /\ response[1] = Some([plan |-> GeneratedPlan(h[Len(h)].days, travel_dates)])
          /\ calls[1].sleep = Len(h) - 1
          /\ Len(locals[1].prompt) = InvalidAmong(Earlier)
     /\ (pc[1] = "done" /\ response[1] = Some(_create_fallback_itinerary(travel_dates))
         /\ h[Len(h)].kind # "plan") =>
          /\ Len(h) = max_retries + 1
          /\ \A k \in 1..Len(h) : h[k].kind # "plan"
     /\ (pc[1] # "done") => (response[1] = Absent /\ Len(h) <= max_retries)
C23_Witness ==
  /\ pc[1] = "done" /\ Len(script.llm) = 3
  /\ script.llm[1].kind = "invalid" /\ script.llm[2].kind = "error"
  /\ script.llm[3].kind = "plan" /\ script.llm[3].days = 2
  /\ calls[1].llm = 3 /\ calls[1].sleep = 2
  /\ Len(response[1][1].plan) = 2 /\ ~IsFallbackDay(response[1][1].plan[1])
\* the run that ends in the fallback
RetriesEndInFallback ==
  (Len(script.llm) = max_retries + 1 /\ \A k \in 1..Len(script.llm) : script.llm[k].kind # "plan") =>
    /\ pc[1] = "done"
    /\ response[1] = Some(_create_fallback_itinerary(DateStrings(request[1].travel_dates)))

\* C25: when the generator's validated plan has more days than the request
\* has dates, _generate_with_retries returns its first N days, numbered
\* 1..N, N being the number of requested dates.
C25_LongPlanIsTruncated ==
  LET h == script.llm
      N == Len(request[1].travel_dates)
  IN (/\ pc[1] = "done" /\ response[1] # Absent
      /\ h # <<>> /\ h[Len(h)].kind = "plan" /\ h[Len(h)].days > N) =>
       /\ Len(response[1][1].plan) = N
       /\ \A j \in 1..N : response[1][1].plan[j].day = Some(j)
\* What the code does: the plan returned has as many days as the generator
\* wrote, whatever the number of dates.
ReturnedPlanKeepsItsLength ==
  LET h == script.llm
  IN (pc[1] = "done" /\ h # <<>> /\ h[Len(h)].kind = "plan") =>
       Len(response[1][1].plan) = h[Len(h)].days

(***************************************************************************)
(* Specification SpecConcurrent: two requests with the same cache key      *)
(* served by one ItineraryService, the second arriving at any time. The    *)
(* calls interleave where generate_itinerary waits for the generation      *)
(* backend; the other collaborators are called without giving up control.  *)
(***************************************************************************)
SameKeyRequests == {GoodRequest, [GoodRequest EXCEPT !.travel_dates = SortedDates(@)]}

ConcurrentInit ==
  /\ PipeInit([Calls -> SameKeyRequests])
  /\ service = [i \in Calls |-> "s1"]
  /\ ollama \in {"up", "down"}
  /\ replay = FALSE
  /\ ConfigInit(CacheConfigs)

ConcurrentNext ==
  \E i \in Calls :
    \/ Arrive(i)
    \/ BackendAnswers(i)

SpecConcurrent == ConcurrentInit /\ [][ConcurrentNext]_vars

\* the entries the cache of the ItineraryService holds for the key of the
\* request of call i, and the payload of the one it holds
KeyOf(i) == HashOf(ItineraryArgs(request[i]))
EntriesOfKey(i) ==
  IF collection[service[i]]
  THEN {d \in documents : d.request_hash = KeyOf(i)}
  ELSE {_memory_cache[<<service[i], "itinerary">>][k] :
          k \in DOMAIN _memory_cache[<<service[i], "itinerary">>] \cap {KeyOf(i)}}
CachedPayload(i) == (CHOOSE e \in EntriesOfKey(i) : TRUE).response_data
\* call i returns with a freshly generated response in this step
CompletesFresh(i) == ~Done(i) /\ Done(i)' /\ Fresh(i)'
BothGenerated == \A i \in Calls : Done(i) /\ Fresh(i)

\* C26: two calls of generate_itinerary for the same key on a service with
\* caching enabled, however they interleave, both end with a full response;
\* when both have generated theirs the cache holds exactly one entry for the
\* key; and each call that returns a generated response leaves its response
\* as the payload of that entry, so the call that wrote last wins.
FullResponse(i) ==
  /\ Status(i) = 200
  /\ {"plan", "travel_dates", "total_days", "weather", "cache_info"} \subseteq DOMAIN Body(i)
C26_LastWriteWinsStep ==
  \A i \in Calls :
    (cache_enabled[service[i]] /\ CompletesFresh(i)) =>
      /\ Cardinality(EntriesOfKey(i))' = 1
      /\ CachedPayload(i)' = Body(i)'
C26_ConcurrentCallsLastWriteWins ==
  /\ [](\A i \in Calls : Done(i) => FullResponse(i))
  /\ []((cache_enabled["s1"] /\ BothGenerated) => Cardinality(EntriesOfKey(1)) = 1)
  /\ [][C26_LastWriteWinsStep]_vars

\* The same for a cache service whose store takes the entry (an in-process
\* map, or a collection whose server answers): this the code keeps.
OperativeLastWriteWinsStep ==
  \A i \in Calls :
    (CacheOperative(service[i]) /\ CompletesFresh(i)) =>
      /\ Cardinality(EntriesOfKey(i))' = 1
      /\ CachedPayload(i)' = Body(i)'
OperativeCacheLastWriteWins ==
  /\ [](\A i \in Calls : Done(i) => FullResponse(i))
  /\ []((CacheOperative("s1") /\ BothGenerated) => Cardinality(EntriesOfKey(1)) = 1)
  /\ [][OperativeLastWriteWinsStep]_vars

\* a payload without its cache_info
WithoutCacheInfo(payload) == [f \in (DOMAIN payload) \ {"cache_info"} |-> payload[f]]
SharedBackend == \A s \in Services : cache_enabled[s] /\ collection[s] /\ mongoUp

\* C27: with one collection behind every cache service, a response that
\* ItineraryService.generate_itinerary serves from the cache is the complete
\* response (plan, travel_dates, total_days, weather) that another call of
\* generate_itinerary built and returned; the payload LLMService writes
\* under the same key on the way is never the one served.
C27_HitIsFinalResponse ==
  \A i \in Calls :
    (SharedBackend /\ Done(i) /\ FromCache(i)) =>
      /\ FullResponse(i)
      /\ \E j \in Calls \ {i} :
           /\ Done(j) /\ Fresh(j)
           /\ WithoutCacheInfo(Body(i)) = WithoutCacheInfo(Body(j))
C27_Witness ==
  /\ SharedBackend /\ Done(1) /\ Done(2)
  /\ Fresh(1) /\ FromCache(2)
  /\ Len(Body(2).plan) >= 2
  /\ Body(2).total_days = Len(request[2].travel_dates)
\* Whenever a call waits or has returned, every payload in the collection is
\* a complete response: the write of LLMService and the write of
\* ItineraryService that replaces it happen without a wait between them.
StoredPayloadsAreFinal ==
  \A d \in documents : "travel_dates" \in DOMAIN d.response_data

\* call i is answered from the cache in this step
ServedFromCache(i) == ~Done(i) /\ Done(i)' /\ FromCache(i)'

\* C28: answering a request from the cache leaves the entry of its key as it
\* was stored, cache_info included.
C28_HitLeavesEntryUnchanged ==
  [][\A i \in Calls : ServedFromCache(i) => EntriesOfKey(i)' = EntriesOfKey(i)]_vars
\* With a collection the payload served is a decoded copy, and the entry
\* stays as it was; the in-process map hands out the stored dict itself.
HitLeavesDocumentUnchanged ==
  [][\A i \in Calls : (ServedFromCache(i) /\ collection[service[i]]) =>
       EntriesOfKey(i)' = EntriesOfKey(i)]_vars
HitMarksStoredDict ==
  [][\A i \in Calls : (ServedFromCache(i) /\ InProcess(i)) =>
       /\ CachedPayload(i).cache_info.from_cache = FALSE
       /\ CachedPayload(i)'.cache_info.from_cache = TRUE
       /\ WithoutCacheInfo(CachedPayload(i)') = WithoutCacheInfo(CachedPayload(i))]_vars

(***************************************************************************)
(* Specification SpecLive: a request of any kind served by a service of    *)
(* any configuration, where the request that has been sent arrives and     *)
(* every call of                                                           *)
(* the generation backend ends: with an answer, an error or the timeout of *)
(* request_timeout seconds that _call_ollama sets.  A step of call i is    *)
(* enabled exactly when Waiting(i) holds, so the fairness condition is     *)
(* WF_vars(Receive(i) \/ BackendAnswers(i)) with ENABLED written out.      *)
(***************************************************************************)
LiveInit ==
  /\ PipeInit({[i \in Calls |-> r] : r \in Requests})
  /\ service = [i \in Calls |-> "s1"]
  /\ ollama \in {"answers", "down"}
  /\ replay = FALSE
  /\ ConfigInit(CacheConfigs)

LiveCalls == {1}
LiveNext ==
  \E i \in LiveCalls :
    \/ Receive(i)
    \/ BackendAnswers(i)

\* call i can take a step: its request is next to arrive, or it waits for
\* the generation backend
Waiting(i) ==
  \/ pc[i] = "idle" /\ \A j \in Calls : j < i => pc[j] = "done"
  \/ pc[i] = "backend"
Fairness ==
  \A i \in LiveCalls :
    ([]<>~Waiting(i)) \/ ([]<><<Receive(i) \/ BackendAnswers(i)>>_vars)

SpecLive == LiveInit /\ [][LiveNext]_vars /\ Fairness

\* C30: every call of generate_itinerary ends, with a response or with the
\* rejection of an invalid request.
Answer(i) == Done(i) /\ response[i] # Absent /\ Status(i) \in {200, 400}
C30_EveryCallCompletes ==
  \A i \in LiveCalls : <>[]Answer(i)
C30_Witness ==
  /\ ollama = "down" /\ Answer(1)
  /\ Status(1) = 200 /\ calls[1].llm = max_retries + 1
  /\ \A j \in 1..Len(Body(1).plan) : IsFallbackDay(Body(1).plan[j])

\* C8: when every operation of the cache backend raises, every lookup is a
\* miss, every store yields False, no exception reaches the caller, and for
\* the same request and the same collaborator answers the plan of the
\* response is the plan returned with caching disabled.
C8_CacheFailureDoesNotChangeResult ==
  (Done(1) /\ Done(2)) =>
    /\ calls[1].cache_hit = 0 /\ calls[1].cache_stored = 0
    /\ Status(1) = 200 /\ Status(2) = 200
    /\ Body(1).plan = Body(2).plan
C8_Witness ==
  /\ replay /\ cache_enabled["s1"] /\ collection["s1"] /\ ~mongoUp /\ ~cache_enabled["s2"]
  /\ service[1] = "s1" /\ service[2] = "s2" /\ Done(1) /\ Done(2)
  /\ calls[1].cache_get > 0 /\ calls[1].cache_set > 0 /\ calls[1].llm > 1
  /\ Len(Body(1).plan) > 1
  /\ Body(1).plan = Body(2).plan

\* ---------------------------------------------------------------------
\* Functions of LLMService that keep no state, called once on drawn inputs
\* ---------------------------------------------------------------------
MaxCities == 3
CityNames == {"Potsdam", "Berlin", ""}
CityLists == SeqsUpTo(CityNames, MaxCities)
\* the names _create_simple_fallback_plan uses when it is given no city
DefaultCities == <<"Local Area", "City Center", "Downtown">>
FallbackDestinations == Destinations \cup {<<"Berlin">>}
FallbackRequests == [destination : FallbackDestinations, travel_dates : DateLists]

\* the loop "for city in nearby_cities: if city not in seen: ..."
RECURSIVE UniqueLoop(_, _)
UniqueLoop(cities, unique_cities) ==
  IF cities = <<>> THEN unique_cities
  ELSE UniqueLoop(Tail(cities),
                  IF Head(cities) \in Range(unique_cities) THEN unique_cities
                  ELSE Append(unique_cities, Head(cities)))
UniqueCitiesKeepAll(nearby_cities) == nearby_cities
UniqueCities(nearby_cities) == UniqueLoop(nearby_cities, <<>>)

\* the four templated activity lines of a fallback day, each naming the city
CityActivities(current_city) ==
  <<<<"Morning", current_city>>, <<"Lunch", current_city>>,
    <<"Afternoon", current_city>>, <<"Evening", current_city>>>>
GenericActivities == <<<<"Morning">>, <<"Lunch">>, <<"Afternoon">>, <<"Evening">>>>

\* LLMService._create_minimal_fallback
_create_minimal_fallback(req, lat, lng) ==
  [i \in 1..Len(req.travel_dates) |->
     [day |-> Some(i), date |-> DateStr(req.travel_dates[i]),
      town |-> "Local Area", place |-> <<"City Center">>,
      activities |-> GenericActivities,
      lat |-> lat, lng |-> lng, distance_from_start |-> 0]]

\* LLMService._create_simple_fallback_plan, called without lat and lng.
\* The only statement of its try block that can raise for a request that
\* passed the model's type checks is the modulo by len(nearby_cities).
_create_simple_fallback_plan(req, nearby_cities) ==
  LET coords == LLMParseCoordinates(req.destination)
      given == IF nearby_cities = <<>> THEN DefaultCities ELSE nearby_cities
      cities == UniqueCities(given)
  IN IF Len(cities) = 0
     THEN _create_minimal_fallback(req, coords[1], coords[2])
     ELSE [i \in 1..Len(req.travel_dates) |->
             LET current_city == cities[((i - 1) % Len(cities)) + 1]
             IN [day |-> Some(i), date |-> DateStr(req.travel_dates[i]),
                 town |-> current_city, place |-> <<current_city, "Center">>,
                 activities |-> CityActivities(current_city),
                 lat |-> coords[1], lng |-> coords[2], distance_from_start |-> 0]]

\* Values parsed from the generation backend's JSON, each with its Python type
Dict(f) == <<"dict", f>>
List(s) == <<"list", s>>
Str(x) == <<"str", x>>
isinstance(v, type) == v[1] = type
In(key, d) == key \in DOMAIN d[2]
MaxParsedLen == 3
GoodDay == [day |-> 1, date |-> Str("date"), town |-> Str("Potsdam"), place |-> Str("Museum"), activities |-> List(<<>>)]
Without(f, key) == [k \in (DOMAIN f) \ {key} |-> f[k]]
ParsedDays ==
  {Str("day"), Dict(GoodDay), Dict([GoodDay EXCEPT !.activities = Str("walk")]),
   Dict(Without(GoodDay, "activities")), Dict(Without(GoodDay, "town")),
   Dict(Without(GoodDay, "date"))}
ParsedData ==
  {Dict(<<>>), Dict([plan |-> Str("none")])}
    \cup {Dict([plan |-> List(days)]) : days \in SeqsUpTo(ParsedDays, MaxParsedLen)}
DateStringLists == {DateStrings(ds) : ds \in DateLists}

\* LLMService._validate_itinerary_structure
LLMRequiredFields == <<"day", "date", "town", "place", "activities">>
DayStructureOk(day_plan) ==
  /\ isinstance(day_plan, "dict")
  /\ \A k \in 1..Len(LLMRequiredFields) : In(LLMRequiredFields[k], day_plan)
  /\ isinstance(day_plan[2].activities, "list")
_validate_itinerary_structure(parsed_data, travel_dates) ==
  IF ~In("plan", parsed_data) THEN FALSE
  ELSE LET plan == parsed_data[2].plan
       IN IF ~isinstance(plan, "list") THEN FALSE
          ELSE \A i \in 1..Len(plan[2]) : DayStructureOk(plan[2][i])

\* validate_parsed_plan of utils/validators.py, which no service calls
RequiredFields == <<"town", "place", "activities">>
DayReasonable(day) ==
  /\ isinstance(day, "dict")
  /\ \A k \in 1..Len(RequiredFields) : In(RequiredFields[k], day)
  /\ isinstance(day[2].activities, "list")
validate_parsed_plan(plan, expected_days) ==
  IF ~isinstance(plan, "list") THEN FALSE
  ELSE IF Len(plan[2]) = 0 THEN FALSE
  ELSE IF Len(plan[2]) > expected_days * 2 THEN FALSE
  ELSE \A i \in 1..Len(plan[2]) : DayReasonable(plan[2][i])

\* Text as a sequence of characters; the white space of the texts modelled
LF == "\n"
SP == " "
QUOTE == "\""
IsSpace(c) == c \in {LF, SP}

\* the index of the first character at or after i that is not white space
\* (Len(t) + 1 if there is none): the end of a greedy \s*
RECURSIVE SkipSpace(_, _)
SkipSpace(t, i) ==
  IF i <= Len(t) /\ IsSpace(t[i]) THEN SkipSpace(t, i + 1) ELSE i
\* the index of the last line feed in t[a..b], 0 if there is none
LastLF(t, a, b) ==
  IF \E k \in a..b : t[k] = LF
  THEN CHOOSE k \in a..b : t[k] = LF /\ \A m \in (k + 1)..b : t[m] # LF
  ELSE 0

\* re.sub(r'(X\s*)\n(\s*")', r'\1,\n\2', t) for X one of the characters
\* in first: leftmost matches, scanning on after the end of each match
RECURSIVE SubCommaBeforeProperty(_, _, _)
SubCommaBeforeProperty(first, t, i) ==
  IF i > Len(t) THEN <<>>
  ELSE LET j == SkipSpace(t, i + 1)
           nl == LastLF(t, i + 1, j - 1)
       IN IF t[i] \in first /\ j <= Len(t) /\ t[j] = QUOTE /\ nl # 0
          THEN SubSeq(t, i, nl - 1) \o <<",">> \o SubSeq(t, nl, j)
                 \o SubCommaBeforeProperty(first, t, j + 1)
          ELSE <<t[i]>> \o SubCommaBeforeProperty(first, t, i + 1)
\* re.sub(r'(\})\s*\n\s*(\{)', r'\1,\n  \2', t)
RECURSIVE SubCommaBetweenObjects(_, _)
SubCommaBetweenObjects(t, i) ==
  IF i > Len(t) THEN <<>>
  ELSE LET j == SkipSpace(t, i + 1)
       IN IF t[i] = "}" /\ j <= Len(t) /\ t[j] = "{" /\ LastLF(t, i + 1, j - 1) # 0
          THEN <<"}", ",", LF, SP, SP, "{">> \o SubCommaBetweenObjects(t, j + 1)
          ELSE <<t[i]>> \o SubCommaBetweenObjects(t, i + 1)
\* re.sub(r',(\s*[}\]])', r'\1', t)
RECURSIVE SubTrailingComma(_, _)
SubTrailingComma(t, i) ==
  IF i > Len(t) THEN <<>>
  ELSE LET j == SkipSpace(t, i + 1)
       IN IF t[i] = "," /\ j <= Len(t) /\ t[j] \in {"}", "]"}
          THEN SubSeq(t, i + 1, j) \o SubTrailingComma(t, j + 1)
          ELSE <<t[i]>> \o SubTrailingComma(t, i + 1)

\* JSONRepairer.repair_json_basic
MissingCommasFixed(json_str) ==
  LET s1 == SubCommaBeforeProperty({QUOTE}, json_str, 1)
      s2 == SubCommaBeforeProperty({"]"}, s1, 1)
      s3 == SubCommaBeforeProperty({"}"}, s2, 1)
  IN SubCommaBetweenObjects(s3, 1)
repair_json_basic_keeping_trailing_commas(json_str) == MissingCommasFixed(json_str)
repair_json_basic(json_str) == SubTrailingComma(MissingCommasFixed(json_str), 1)

\* json.loads on texts of arrays, objects and strings without escapes:
\* a parse step gives whether it succeeded, the value and the next index
ParseError == [ok |-> FALSE, value |-> <<>>, next |-> 0]
Parsed(value, next) == [ok |-> TRUE, value |-> value, next |-> next]
CharAt(t, i) == IF i <= Len(t) THEN t[i] ELSE "EOF"
ParseString(t, i) ==
  IF \E j \in (i + 1)..Len(t) : t[j] = QUOTE
  THEN LET j == CHOOSE k \in (i + 1)..Len(t) :
                  t[k] = QUOTE /\ \A m \in (i + 1)..(k - 1) : t[m] # QUOTE
       IN IF \E m \in (i + 1)..(j - 1) : t[m] = LF
          THEN ParseError    \* control character inside a string
          ELSE Parsed(Str(SubSeq(t, i + 1, j - 1)), j + 1)
  ELSE ParseError
RECURSIVE ParseValue(_, _), ParseElements(_, _, _), ParseMembers(_, _, _)
ParseValue(t, i) ==
  LET k == SkipSpace(t, i)
  IN IF CharAt(t, k) = QUOTE THEN ParseString(t, k)
     ELSE IF CharAt(t, k) = "["
          THEN IF CharAt(t, SkipSpace(t, k + 1)) = "]"
               THEN Parsed(List(<<>>), SkipSpace(t, k + 1) + 1)
               ELSE ParseElements(t, k + 1, <<>>)
     ELSE IF CharAt(t, k) = "{"
          THEN IF CharAt(t, SkipSpace(t, k + 1)) = "}"
               THEN Parsed(Dict(<<>>), SkipSpace(t, k + 1) + 1)
               ELSE ParseMembers(t, k + 1, <<>>)
     ELSE ParseError
ParseElements(t, i, acc) ==
  LET v == ParseValue(t, i)
      k == SkipSpace(t, v.next)
  IN IF ~v.ok THEN ParseError
     ELSE IF CharAt(t, k) = "," THEN ParseElements(t, k + 1, Append(acc, v.value))
     ELSE IF CharAt(t, k) = "]" THEN Parsed(List(Append(acc, v.value)), k + 1)
     ELSE ParseError
ParseMembers(t, i, acc) ==
  LET k == SkipSpace(t, i)
      key == IF CharAt(t, k) = QUOTE THEN ParseString(t, k) ELSE ParseError
      colon == SkipSpace(t, key.next)
      v == IF key.ok /\ CharAt(t, colon) = ":" THEN ParseValue(t, colon + 1) ELSE ParseError
      e == SkipSpace(t, v.next)
      members == [x \in DOMAIN acc \cup {key.value[2]} |->
                    IF x = key.value[2] THEN v.value ELSE acc[x]]
  IN IF ~v.ok THEN ParseError
     ELSE IF CharAt(t, e) = "," THEN ParseMembers(t, e + 1, members)
     ELSE IF CharAt(t, e) = "}" THEN Parsed(Dict(members), e + 1)
     ELSE ParseError
\* json.loads: the value, or nothing when it raises JSONDecodeError
json_loads(t) ==
  LET v == ParseValue(t, 1)
  IN IF v.ok /\ SkipSpace(t, v.next) > Len(t) THEN Some(v.value) ELSE Absent

\* Malformed array texts: objects {"a":"v"} that may end in a trailing
\* comma, separated by a comma or by white space with a line feed, in
\* brackets that may close after a trailing comma
MaxObjects == 2
Digits == {"1", "2"}
TrailingCommas == {<<>>, <<",">>, <<",", SP>>, <<",", LF>>}
Separators == {<<",">>, <<LF>>, <<SP, LF>>, <<LF, SP, SP>>, <<LF, LF>>}
ObjectText(v, trail) == <<"{", QUOTE, "a", QUOTE, ":", QUOTE, v, QUOTE>> \o trail \o <<"}">>
RECURSIVE ObjectsText(_, _, _)
ObjectsText(vs, seps, trail) ==
  IF Len(vs) = 1 THEN ObjectText(vs[1], trail)
  ELSE ObjectText(vs[1], trail) \o seps[1] \o ObjectsText(Tail(vs), Tail(seps), trail)
ArrayText(vs, seps, trail, last) == <<"[">> \o ObjectsText(vs, seps, trail) \o last \o <<"]">>
WrittenList(vs) == List([k \in 1..Len(vs) |-> Dict([key \in {<<"a">>} |-> Str(<<vs[k]>>)])])

\* Generator texts. A run of letters is written as one element of the text:
\* no pattern of the repairs and no rule of the parser tells letters apart.
\* Decoded gives a parsed value with such runs as names.
RECURSIVE Decoded(_)
Decoded(v) ==
  IF isinstance(v, "str") THEN Str(IF Len(v[2]) = 1 THEN v[2][1] ELSE v[2])
  ELSE IF isinstance(v, "list") THEN List([k \in 1..Len(v[2]) |-> Decoded(v[2][k])])
  ELSE Dict([name \in {key[1] : key \in DOMAIN v[2]} |-> Decoded(v[2][<<name>>])])
Member(name, value) == <<QUOTE, name, QUOTE, ":">> \o value
Quoted(word) == <<QUOTE, word, QUOTE>>
DayText(complete, trail) ==
  <<"{">> \o Member("day", Quoted("1")) \o <<",">> \o Member("date", Quoted("d")) \o <<",">>
    \o Member("town", Quoted("t")) \o <<",">>
    \o (IF complete THEN Member("place", Quoted("p")) \o <<",">> ELSE <<>>)
    \o Member("activities", <<"[", "]">>) \o trail \o <<"}">>
RECURSIVE DaysText(_, _, _, _)
DaysText(n, complete, seps, trail) ==
  IF n = 1 THEN DayText(complete, trail)
  ELSE DayText(TRUE, trail) \o seps[1] \o DaysText(n - 1, complete, Tail(seps), trail)
ItineraryText(n, complete, seps, trail, last) ==
  <<"Here", SP, "it", SP, "is", ":", LF, "{">>
    \o Member("plan", <<"[">> \o DaysText(n, complete, seps, trail) \o last \o <<"]">>)
    \o <<"}", LF, "Enjoy">>
RawResponses ==
  {<<"Sorry">>, <<"}", "{">>, <<"{", "}">>, <<"{">> \o Member("plan", <<"[", "]">>) \o <<"}">>}
    \cup {ItineraryText(n, complete, seps, trail, last) :
            n \in {1}, complete \in BOOLEAN, seps \in {<<>>},
            trail \in TrailingCommas, last \in TrailingCommas}
    \cup {ItineraryText(n, complete, seps, trail, last) :
            n \in {MaxObjects}, complete \in BOOLEAN,
            seps \in [1..(MaxObjects - 1) -> Separators],
            trail \in TrailingCommas, last \in TrailingCommas}

\* raw_response.find('{') and raw_response.rfind('}') + 1, from 0
Find(t, c) ==
  IF \E k \in 1..Len(t) : t[k] = c
  THEN (CHOOSE k \in 1..Len(t) : t[k] = c /\ \A m \in 1..(k - 1) : t[m] # c) - 1
  ELSE -1
RFind(t, c) ==
  IF \E k \in 1..Len(t) : t[k] = c
  THEN (CHOOSE k \in 1..Len(t) : t[k] = c /\ \A m \in (k + 1)..Len(t) : t[m] # c) - 1
  ELSE -1
\* raw_response[json_start:json_end]
Slice(t, start, end) == SubSeq(t, start + 1, end)

\* the names bound in the module llm_service: its imports, the names that
\* "from ..utils.json_repair import *" brings (json, re, JSONRepairer), and
\* what the module defines
ModuleGlobals ==
  {"logging", "json", "Dict", "List", "Any", "Optional", "datetime", "asyncio", "aiohttp",
   "CacheService", "re", "JSONRepairer", "logger", "LLMService"}
\* the bare names the repair_strategies list refers to, in order
StrategyNames ==
  <<"repair_json_basic", "fix_missing_commas", "smart_comma_repair", "character_level_repair",
    "validate_and_repair_json">>
\* building the list raises NameError at the first name that is not bound
StrategyListRaises == \E k \in 1..Len(StrategyNames) : StrategyNames[k] \notin ModuleGlobals
\* the loop over the strategies: parse what the strategy makes of the text,
\* go on to the next strategy unless the value parses and validates
RECURSIVE TryStrategies(_, _, _)
TryStrategies(strategies, json_str, travel_dates) ==
  IF strategies = <<>> THEN Absent
  ELSE LET parsed == json_loads(IF Head(strategies) = "repair_json_basic"
                                THEN repair_json_basic(json_str) ELSE json_str)
       IN IF parsed # Absent /\ _validate_itinerary_structure(Decoded(parsed[1]), travel_dates)
          THEN Some(Decoded(parsed[1]))
          ELSE TryStrategies(Tail(strategies), json_str, travel_dates)

\* LLMService._parse_llm_response_with_validation: the parsed itinerary, or
\* nothing (None)
_parse_llm_response_with_validation(raw_response, travel_dates) ==
  LET json_start == Find(raw_response, "{")
      json_end == RFind(raw_response, "}") + 1
      json_str == Slice(raw_response, json_start, json_end)
      parsed == json_loads(json_str)
  IN IF json_start = -1 \/ json_end = 0 THEN Absent
     ELSE IF parsed # Absent
          THEN IF _validate_itinerary_structure(Decoded(parsed[1]), travel_dates)
               THEN Some(Decoded(parsed[1]))
               ELSE Absent
     ELSE IF StrategyListRaises THEN Absent    \* NameError, caught by the outer handler
     ELSE TryStrategies(StrategyNames, json_str, travel_dates)

Returned(value) == [raised |-> FALSE, value |-> value]

CallInit ==
  /\ fOp = "ready" /\ fArgs = <<>> /\ fResult = <<>>
  /\ HashIdle
  /\ RouteIdle
  /\ CacheIdle
  /\ PipeIdle

CreateSimpleFallbackPlan ==
  /\ fOp = "ready"
  /\ \E req \in FallbackRequests, nearby_cities \in CityLists :
       /\ fArgs' = [request |-> req, nearby_cities |-> nearby_cities]
       /\ fResult' = Returned(_create_simple_fallback_plan(req, nearby_cities))
  /\ fOp' = "_create_simple_fallback_plan"
  /\ UNCHANGED callFrame

ValidateItineraryStructure ==
  /\ fOp = "ready"
  /\ \E parsed_data \in ParsedData, travel_dates \in DateStringLists :
       /\ fArgs' = [parsed_data |-> parsed_data, travel_dates |-> travel_dates]
       /\ fResult' = Returned(_validate_itinerary_structure(parsed_data, travel_dates))
  /\ fOp' = "_validate_itinerary_structure"
  /\ UNCHANGED callFrame

ValidateParsedPlan ==
  /\ fOp = "ready"
  /\ \E parsed_data \in ParsedData, expected_days \in 0..MaxDates :
       /\ In("plan", parsed_data)
       /\ fArgs' = [plan |-> parsed_data[2].plan, expected_days |-> expected_days]
       /\ fResult' = Returned(validate_parsed_plan(parsed_data[2].plan, expected_days))
  /\ fOp' = "validate_parsed_plan"
  /\ UNCHANGED callFrame

\* what the weather provider may answer: at most one item per day
ProviderForecasts ==
  {[k \in 1..Len(ds) |-> ForecastItem(ds[k])] :
     ds \in {x \in SeqsUpTo(Dates, NumDates) : Cardinality(Range(x)) = Len(x)}}
GetWeatherData ==
  /\ fOp = "ready"
  /\ \E forecast \in ProviderForecasts, travel_dates \in DateLists :
       /\ fArgs' = [forecast |-> forecast, sorted_dates |-> SortedDates(travel_dates)]
       /\ fResult' = Returned(_get_weather_data(forecast, SortedDates(travel_dates)))
  /\ fOp' = "_get_weather_data"
  /\ UNCHANGED callFrame

ParseLLMResponse ==
  /\ fOp = "ready"
  /\ \E raw_response \in RawResponses, travel_dates \in DateStringLists :
       /\ fArgs' = [raw_response |-> raw_response, travel_dates |-> travel_dates]
       /\ fResult' = Returned(_parse_llm_response_with_validation(raw_response, travel_dates))
  /\ fOp' = "_parse_llm_response_with_validation"
  /\ UNCHANGED callFrame

RepairJsonBasic ==
  /\ fOp = "ready"
  /\ \E n \in 1..MaxObjects :
       \E vs \in [1..n -> Digits], seps \in [1..(n - 1) -> Separators],
          trail \in TrailingCommas, last \in TrailingCommas :
         /\ fArgs' = [json_str |-> ArrayText(vs, seps, trail, last), written |-> WrittenList(vs)]
         /\ fResult' = Returned(repair_json_basic(ArrayText(vs, seps, trail, last)))
  /\ fOp' = "repair_json_basic"
  /\ UNCHANGED callFrame

\* the day lists handed to the geo-enricher: up to MaxEnrichDays days, each
\* with one of the towns and places below ("" is a missing or empty name)
MaxEnrichDays == 2
EnrichTowns == {"Potsdam", "Leipzig", "Atlantis", ""}
EnrichPlaces == {"Museum", "Tower", "Cafe"}
EnrichDay(j, town, place) ==
  [obj |-> j, day |-> Some(j), date |-> DateStr(DateBase + 1), town |-> town, place |-> place,
   lat |-> 0, lng |-> 0, distance_from_start |-> 0, travel_distance_km |-> Absent, route |-> Absent]
EnrichDayLists ==
  UNION {{[j \in 1..n |-> EnrichDay(j, names[j][1], names[j][2])] :
            names \in [1..n -> EnrichTowns \X EnrichPlaces]} : n \in 1..MaxEnrichDays}
StartCoords == {<<0, 0>>, <<1, 1>>}

EnrichAndValidatePlan ==
  /\ fOp = "ready"
  /\ \E start_coords \in StartCoords, days \in EnrichDayLists, radius_km \in Radii :
       /\ fArgs' = [start_coords |-> start_coords, days |-> days, radius_km |-> radius_km]
       /\ fResult' = Returned(enrich_and_validate_plan(start_coords, days, radius_km))
  /\ fOp' = "enrich_and_validate_plan"
  /\ UNCHANGED callFrame

CallNext ==
  \/ CreateSimpleFallbackPlan
  \/ EnrichAndValidatePlan
  \/ ParseLLMResponse
  \/ RepairJsonBasic
  \/ GetWeatherData
  \/ ValidateItineraryStructure
  \/ ValidateParsedPlan

SpecCalls == CallInit /\ [][CallNext]_vars

\* the first position of a name in a list
FirstIndex(cs, c) == CHOOSE i \in 1..Len(cs) : cs[i] = c /\ \A j \in 1..(i - 1) : cs[j] # c
\* the distinct names of a list, each at the rank of its first occurrence
DistinctInOrder(cs) ==
  CHOOSE u \in [1..Cardinality(Range(cs)) -> Range(cs)] :
    /\ Range(u) = Range(cs)
    /\ \A a, b \in 1..Len(u) : a < b => FirstIndex(cs, u[a]) < FirstIndex(cs, u[b])

\* C12: _create_simple_fallback_plan returns without raising one entry per
\* requested date, entry i numbered i and dated with the i-th date; given a
\* non-empty city list with n distinct names, the town of entry i is the
\* ((i-1) mod n)-th (counting from 0) distinct name in first-occurrence
\* order, so with two or more distinct names neighbouring days differ in town.
C12_FallbackRotatesCities ==
  fOp = "_create_simple_fallback_plan" =>
    LET dates == fArgs.request.travel_dates
        plan == fResult.value
        u == DistinctInOrder(fArgs.nearby_cities)
    IN /\ ~fResult.raised
       /\ Len(plan) = Len(dates)
       /\ \A i \in 1..Len(plan) :
            plan[i].day = Some(i) /\ plan[i].date = DateStr(dates[i])
       /\ fArgs.nearby_cities # <<>> =>
            /\ \A i \in 1..Len(plan) : plan[i].town = u[((i - 1) % Len(u)) + 1]
            /\ Len(u) >= 2 =>
                 \A i \in 1..(Len(plan) - 1) : plan[i].town # plan[i + 1].town
C12_Witness ==
  /\ fOp = "_create_simple_fallback_plan"
  /\ fArgs.nearby_cities = <<"Potsdam", "Potsdam", "Berlin">>
  /\ Len(fArgs.request.travel_dates) = 2
  /\ fResult.value[1].town = "Potsdam" /\ fResult.value[2].town = "Berlin"

\* C14: the acceptance test of the retry controller accepts a parsed result
\* only if it has a day list, every element of the list is a record with
\* town, place and a list of activities, and the list is at most twice as
\* long as the list of requested dates.
C14_AcceptedPlanIsReasonable ==
  (fOp = "_validate_itinerary_structure" /\ fResult.value) =>
    /\ In("plan", fArgs.parsed_data)
    /\ isinstance(fArgs.parsed_data[2].plan, "list")
    /\ \A i \in 1..Len(fArgs.parsed_data[2].plan[2]) :
         DayReasonable(fArgs.parsed_data[2].plan[2][i])
    /\ Len(fArgs.parsed_data[2].plan[2]) <= 2 * Len(fArgs.travel_dates)

\* What the acceptance test of the retry controller does guarantee: a day
\* list whose elements are records with day, date, town, place and a list of
\* activities, of any length.
AcceptedPlanIsStructured ==
  (fOp = "_validate_itinerary_structure" /\ fResult.value) =>
    /\ In("plan", fArgs.parsed_data)
    /\ isinstance(fArgs.parsed_data[2].plan, "list")
    /\ \A i \in 1..Len(fArgs.parsed_data[2].plan[2]) :
         DayReasonable(fArgs.parsed_data[2].plan[2][i])

\* The length test is in validate_parsed_plan only.
ParsedPlanLengthIsChecked ==
  (fOp = "validate_parsed_plan" /\ fResult.value) =>
    Len(fArgs.plan[2]) <= 2 * fArgs.expected_days

\* whether a date text is the date of an item of a forecast list
Forecasted(forecast, s) == \E k \in 1..Len(forecast) : forecast[k].date = s

\* C19: in every response each requested travel date is either the date of
\* an entry of weather.forecast or an element of weather.missing_dates, and
\* never both.
C19_DatesForecastOrMissing ==
  \A i \in Calls :
    (Done(i) /\ Status(i) = 200) =>
      /\ "weather" \in DOMAIN Body(i)
      /\ \A k \in 1..Len(request[i].travel_dates) :
           LET s == DateStr(request[i].travel_dates[k])
           IN Forecasted(Body(i).weather.forecast, s)
                # (s \in Range(Body(i).weather.missing_dates))

\* What the code guarantees: the answer of _get_weather_data puts every
\* requested date in exactly one of the two places, ...
WeatherDataCoversDates ==
  fOp = "_get_weather_data" =>
    \A k \in 1..Len(fArgs.sorted_dates) :
      LET s == DateStr(fArgs.sorted_dates[k])
      IN Forecasted(fResult.value.forecast, s) # (s \in Range(fResult.value.missing_dates))
\* ... and so does every response to a request whose destination parses.
ResponseWeatherCoversDates ==
  \A i \in Calls :
    (Done(i) /\ Status(i) = 200 /\ _parse_coordinates(request[i].destination) # Absent) =>
      /\ "weather" \in DOMAIN Body(i)
      /\ \A k \in 1..Len(request[i].travel_dates) :
           LET s == DateStr(request[i].travel_dates[k])
           IN Forecasted(Body(i).weather.forecast, s)
                # (s \in Range(Body(i).weather.missing_dates))

\* C21: the text repair_json_basic makes of an array text whose objects are
\* separated by a line feed without a comma, or which has a comma before a
\* closing brace or bracket, parses to the list of the objects written in
\* it, with no element more or less.
C21_BasicRepairRecoversList ==
  fOp = "repair_json_basic" => json_loads(fResult.value) = Some(fArgs.written)
C21_Witness ==
  /\ fOp = "repair_json_basic"
  /\ fArgs.json_str = <<"[", "{", QUOTE, "a", QUOTE, ":", QUOTE, "1", QUOTE, "}", LF,
                        "{", QUOTE, "a", QUOTE, ":", QUOTE, "2", QUOTE, "}", "]">>
  /\ json_loads(fArgs.json_str) = Absent
  /\ json_loads(fResult.value) # Absent
  /\ Len(json_loads(fResult.value)[1][2]) = 2
\* the other fixture: a trailing comma in the only object
TrailingCommaFixtureIsRepaired ==
  (/\ fOp = "repair_json_basic"
   /\ fArgs.json_str = <<"[", "{", QUOTE, "a", QUOTE, ":", QUOTE, "1", QUOTE, ",", "}", "]">>) =>
    /\ json_loads(fArgs.json_str) = Absent
    /\ Len(json_loads(fResult.value)[1][2]) = 1

\* the text between the first opening and the last closing brace of the
\* generator text of a call
ExtractedText ==
  Slice(fArgs.raw_response, Find(fArgs.raw_response, "{"), RFind(fArgs.raw_response, "}") + 1)

\* C24: when the extracted text does not parse, the repair strategies are
\* applied to it in order, basic repair first, and the first strategy whose
\* output parses and validates gives the returned plan: a text that basic
\* repair turns into a valid itinerary is answered with that itinerary.
C24_FirstSuccessfulRepairIsReturned ==
  (/\ fOp = "_parse_llm_response_with_validation"
   /\ Find(fArgs.raw_response, "{") # -1
   /\ json_loads(ExtractedText) = Absent) =>
    LET repaired == json_loads(repair_json_basic(ExtractedText))
    IN (/\ repaired # Absent
        /\ _validate_itinerary_structure(Decoded(repaired[1]), fArgs.travel_dates)) =>
         fResult.value = Some(Decoded(repaired[1]))

\* What the code does: a text that does not parse as it is gives nothing, ...
UnparsedTextGivesNothing ==
  (/\ fOp = "_parse_llm_response_with_validation"
   /\ (Find(fArgs.raw_response, "{") = -1 \/ json_loads(ExtractedText) = Absent)) =>
    fResult.value = Absent
\* ... and a text that parses gives its value if that is a valid itinerary.
ParsedTextIsValidated ==
  (/\ fOp = "_parse_llm_response_with_validation"
   /\ Find(fArgs.raw_response, "{") # -1
   /\ json_loads(ExtractedText) # Absent) =>
    fResult.value = IF _validate_itinerary_structure(Decoded(json_loads(ExtractedText)[1]), fArgs.travel_dates)
                    THEN Some(Decoded(json_loads(ExtractedText)[1])) ELSE Absent
\* the strategies of the geo-enricher for a day, in order: what geocoding
\* the combined place and town, the place alone and the town alone yields
Strategies(day) ==
  <<IF day.town # "" /\ day.place # "" THEN GeocodeProvider(<<day.place, day.town>>) ELSE <<>>,
    IF day.place # "" THEN GeocodeProvider(<<day.place>>) ELSE <<>>,
    IF day.town # "" THEN GeocodeProvider(<<day.town>>) ELSE <<>>>>
Yielding(day) == {k \in 1..3 : Strategies(day)[k] # <<>>}
FirstYielding(day) == CHOOSE k \in Yielding(day) : \A m \in Yielding(day) : k <= m
Enriching == fOp = "enrich_and_validate_plan"

\* C31: every day for which geocoding the combined place and town, the place
\* alone or the town alone yields coordinates is assigned the coordinates of
\* the first of the three, in this order, that yields any.
C31_FirstYieldingStrategyIsAssigned ==
  Enriching =>
    \A j \in 1..Len(fArgs.days) :
      Yielding(fArgs.days[j]) # {} =>
        DayCoords(fResult.value[j]) = Strategies(fArgs.days[j])[FirstYielding(fArgs.days[j])][1]
\* the days the combined query resolves get its coordinates
CombinedQueryIsAssigned ==
  Enriching =>
    \A j \in 1..Len(fArgs.days) :
      1 \in Yielding(fArgs.days[j]) => DayCoords(fResult.value[j]) = Strategies(fArgs.days[j])[1][1]
\* C32: in a freshly generated response with at least one nearby city, a day
\* for which none of the three geocoding strategies yields coordinates
\* carries the coordinates of the first nearby city the geocoder knows.
KnownCities(cities) == SelectSeq(cities, LAMBDA city : GeocodeProvider(<<city>>) # <<>>)
C32_NearbyCityFallback ==
  \A i \in Calls :
    (Done(i) /\ Fresh(i) /\ KnownCities(Body(i).nearby_cities) # <<>>) =>
      \A j \in 1..Len(Body(i).plan) :
        Yielding(Body(i).plan[j]) = {} =>
          DayCoords(Body(i).plan[j]) = GeocodeProvider(<<KnownCities(Body(i).nearby_cities)[1]>>)[1]
\* the fields of the j-th day that the enricher added or changed
Written(j) ==
  {f \in DOMAIN fResult.value[j] :
     f \notin DOMAIN fArgs.days[j] \/ fResult.value[j][f] # fArgs.days[j][f]}
\* C33: a day for which every resolution strategy failed, and which carries
\* the sentinel coordinate, has a field other than its coordinates and its
\* distance added or changed by the enricher (the flag).
C33_SentinelDayIsFlagged ==
  Enriching =>
    \A j \in 1..Len(fArgs.days) :
      (Yielding(fArgs.days[j]) = {} /\ DayCoords(fResult.value[j]) = <<0, 0>>) =>
        Written(j) \ {"lat", "lng", "distance_from_start"} # {}
\* a day with the sentinel and a geocoded day of the same plan differ in some
\* field other than town and place
SentinelDayDiffersFromGeocoded ==
  Enriching =>
    \A j, k \in 1..Len(fArgs.days) :
      (Yielding(fArgs.days[j]) = {} /\ 1 \in Yielding(fArgs.days[k])) =>
        \E f \in (DOMAIN fResult.value[j]) \ {"town", "place", "obj", "day"} :
          fResult.value[j][f] # fResult.value[k][f]
\* the enricher writes coordinates and distance only
EnricherWritesCoordinatesOnly ==
  Enriching =>
    \A j \in 1..Len(fArgs.days) :
      /\ DOMAIN fResult.value[j] = DOMAIN fArgs.days[j]
      /\ Written(j) \subseteq {"lat", "lng", "distance_from_start"}
\* the j-th day is one the geocoder resolves, farther from the origin than
\* the radius (distances are in tenths of a km)
ResolvedOutsideRadius(j) ==
  /\ 1 \in Yielding(fArgs.days[j])
  /\ RoundedDistance(fArgs.start_coords, Strategies(fArgs.days[j])[1][1]) > 10 * fArgs.radius_km
\* C34: a day whose resolved coordinate lies farther from the origin than the
\* radius is returned with exactly that coordinate and with the distance of
\* that coordinate from the origin (rounded to one decimal).
C34_OutsideRadiusIsKept ==
  Enriching =>
    \A j \in 1..Len(fArgs.days) :
      ResolvedOutsideRadius(j) =>
        /\ DayCoords(fResult.value[j]) = Strategies(fArgs.days[j])[1][1]
        /\ fResult.value[j].distance_from_start =
             RoundedDistance(fArgs.start_coords, Strategies(fArgs.days[j])[1][1])
C34_Witness ==
  /\ Enriching
  /\ fArgs.radius_km = 100
  /\ Len(fArgs.days) = 2
  /\ ResolvedOutsideRadius(1) /\ ~ResolvedOutsideRadius(2)
  /\ DayCoords(fResult.value[1]) = <<2, 1>>
  /\ fResult.value[1].distance_from_start > 10 * fArgs.radius_km
\* every entry the cache service holds, in the collection or in its
\* in-process map; an entry carries the arguments of the store that wrote it
HeldEntries == documents \cup {_memory_cache[TheCache][k] : k \in DOMAIN _memory_cache[TheCache]}
\* an entry written for a request with the destination, the dates (in any
\* order), the preferences and the radius of args
SameRequest(entry, args) ==
  /\ entry.destination = args.destination
  /\ IsPermutation(entry.travel_dates, args.travel_dates)
  /\ entry.preferences = args.preferences
  /\ entry.radius = args.radius
\* C37: a payload that get_cached_response returns for a request is the
\* payload of an entry that cache_response wrote for a request with the same
\* destination, the same dates in any order, the same preferences and the
\* same radius; without such an entry the lookup is a miss.
C37_NoCrossRequestLeak ==
  (cLast # <<>> /\ cLast[1].op = "get_cached_response" /\ cLast[1].response_data # Absent) =>
    \E e \in HeldEntries :
      /\ SameRequest(e, cLast[1].args)
      /\ cLast[1].response_data = Some(e.response_data)
C37_Witness ==
  /\ cPrev # <<>> /\ cPrev[1].op = "get_cached_response"
  /\ cPrev[1].args = BaseArgs /\ cPrev[1].response_data = Some("payload1")
  /\ cLast # <<>> /\ cLast[1].op = "get_cached_response"
  /\ cLast[1].args = [BaseArgs EXCEPT !.radius = 100] /\ cLast[1].response_data = Absent
  /\ \E e \in HeldEntries : e.travel_dates # BaseArgs.travel_dates /\ SameRequest(e, BaseArgs)
  /\ \A e \in HeldEntries : e.radius = 50
\* the dates of a freshly generated plan, as far as the request has dates:
\* the j-th entry carries the j-th requested date in ascending order
DatesAssignedByPosition ==
  \A i \in Calls :
    (Done(i) /\ Fresh(i)) =>
      \A j \in 1..Len(Body(i).plan) :
        j <= Len(request[i].travel_dates) =>
          Body(i).plan[j].date = DateStr(SortedDates(request[i].travel_dates)[j])
\* C38: in every freshly generated response the j-th plan entry, as far as
\* the request has dates, carries the j-th requested date in ascending order,
\* and the dates of the plan are strictly ascending in plan order.
C38_PlanDatesAscending ==
  \A i \in Calls :
    (Done(i) /\ Fresh(i)) =>
      /\ \A j \in 1..Len(Body(i).plan) :
           j <= Len(request[i].travel_dates) =>
             Body(i).plan[j].date = DateStr(SortedDates(request[i].travel_dates)[j])
      /\ \A j \in 1..(Len(Body(i).plan) - 1) :
           StrLess(Body(i).plan[j].date, Body(i).plan[j + 1].date)

====
